---- MODULE Spec2Model ----
(***************************************************************************)
(* Model of the embind interface generator (em_cpp_interface_generator.py  *)
(* and style_sheets/shared_helpers.py).                                    *)
(*                                                                         *)
(* Strings are sequences of tokens.  Identifiers and mangled names are     *)
(* sequences of single characters, so that prefix tests and splitting on   *)
(* the separator are computed as the code computes them.  Type spellings   *)
(* are sequences of lexical tokens ("const", " ", "std::vector", ...).     *)
(*                                                                         *)
(* The recursive AST traversal is modelled one visited cursor at a time:   *)
(* `stack` is the chain of entities whose constructors are still running.  *)
(***************************************************************************)
EXTENDS Integers, Sequences, FiniteSets, TLC

VARIABLES
    ent,                     \* every MetaInfo object created so far; index = identity
    stack,                   \* constructors / scans in progress (innermost last)
    child,                   \* the cursor most recently visited by a scan loop
    pc,                      \* position in main() / ProjectMeta.__init__
    in_header,               \* TRUE while a translation unit is being scanned
    includes,                \* ProjectMeta.includes
    types_can_be_registered, \* STLContainerFilter.types_can_be_registered
    stl_containers,          \* ProjectMeta.stl_containers
    flattens,                \* number of flatten() calls made on the project
    output,                  \* result of ProjectMeta.tagging (sequence of lines)
    current_style_sheet,     \* the selected style sheet
    style_call,              \* last select_style_sheet call: its argument and what it raised
    output_file,             \* dest_dir/embind_bindings.cpp: {} absent, {content} present
    raised                   \* the exception that ended the run; <<>> when none

vars == <<ent, stack, child, pc, in_header, includes, types_can_be_registered,
          stl_containers, flattens, output, current_style_sheet, style_call,
                   output_file, raised>>

(***************************************************************************)
(* Bounds                                                                  *)
(***************************************************************************)
MaxEnt == 3        \* entities created besides the project root (tree scenario)
MaxHeaders == 2    \* input header files
MaxFlatten == 2    \* calls of ProjectMeta.flatten
MaxFns == 3        \* callables created (overload scenario)
MaxUses == 3       \* typed declarations created (container scenario)

(***************************************************************************)
(* Generic helpers                                                         *)
(***************************************************************************)
Root == 1
None == 0          \* parent of the project root

RECURSIVE Concat(_)
Concat(ss) == IF ss = <<>> THEN <<>> ELSE Head(ss) \o Concat(Tail(ss))

Range(s) == {s[i] : i \in 1..Len(s)}

StartsWith(s, p) == Len(s) >= Len(p) /\ SubSeq(s, 1, Len(p)) = p

EndsWith(s, p) == Len(s) >= Len(p) /\ SubSeq(s, Len(s) - Len(p) + 1, Len(s)) = p

\* str.split(sep) for a two-token separator: left to right, non-overlapping.
RECURSIVE SplitFrom(_, _, _)
SplitFrom(s, sep, cur) ==
    IF s = <<>> THEN <<cur>>
    ELSE IF StartsWith(s, sep)
         THEN <<cur>> \o SplitFrom(SubSeq(s, Len(sep) + 1, Len(s)), sep, <<>>)
         ELSE SplitFrom(Tail(s), sep, Append(cur, Head(s)))

Split(s, sep) == SplitFrom(s, sep, <<>>)

(***************************************************************************)
(* clang types and cursors (the read-only input)                           *)
(***************************************************************************)
IntT == <<"int">>
VoidT == <<"void">>
VecInt == <<"std::vector", "<", "int", ">">>
VecDouble == <<"std::vector", "<", "double", ">">>

\* A clang Type: the spelling of a typedef naming it (alias, <<>> if none),
\* and the canonical type: base spelling, const qualifier, declarator.
MkType(alias, base, const, ref) ==
    [alias |-> alias, base |-> base, const |-> const, ref |-> ref]

\* Type.spelling keeps the typedef name; the canonical type spells base and declarator
TypeSpelling(t) ==
    (IF t.const THEN <<"const", " ">> ELSE <<>>)
    \o (IF t.alias # <<>> THEN t.alias
        ELSE t.base \o (CASE t.ref = "" -> <<>>
                          [] t.ref = "&&" -> <<" ", "&", "&">>
                          [] OTHER -> <<" ", t.ref>>))

TypeKind(t) ==
    IF t.alias # <<>> THEN "TYPEDEF"
    ELSE CASE t.ref = "&" -> "LVALUEREFERENCE"
           [] t.ref = "&&" -> "RVALUEREFERENCE"
           [] t.ref = "*" -> "POINTER"
           [] OTHER -> "UNEXPOSED"

get_canonical(t) == [t EXCEPT !.alias = <<>>]

get_pointee(t) == [t EXCEPT !.ref = ""]

is_const_qualified(t) == t.const /\ t.ref = ""

TInt == MkType(<<>>, IntT, FALSE, "")
TVoid == MkType(<<>>, VoidT, FALSE, "")
TVoidPtr == MkType(<<>>, VoidT, FALSE, "*")
TNone == MkType(<<>>, <<>>, FALSE, "")

\* The spelling of a function's own type, e.g. "void (int)".
RECURSIVE JoinSpellings(_)
JoinSpellings(ts) ==
    IF ts = <<>> THEN <<>>
    ELSE IF Len(ts) = 1 THEN TypeSpelling(ts[1])
    ELSE TypeSpelling(ts[1]) \o <<", ">> \o JoinSpellings(Tail(ts))

FnType(result, args) ==
    MkType(<<>>, TypeSpelling(result) \o <<" ", "(">> \o JoinSpellings(args) \o <<")">>,
           FALSE, "")

\* A cursor handed out by get_children().
MkCursor(kind, spelling, access, storage, type, result, args, here, def) ==
    [kind |-> kind, spelling |-> spelling, access_specifier |-> access,
     storage_class |-> storage, type |-> type, result_type |-> result,
     arguments |-> args, in_scanned_file |-> here, is_definition |-> def]

NoCursor == MkCursor("NONE", <<>>, "INVALID", "NONE", TNone, TNone, <<>>, TRUE, TRUE)

\* a declaration of the scanned file, without a type of its own
Decl(kind, spelling, access) ==
    MkCursor(kind, spelling, access, "NONE", TNone, TNone, <<>>, TRUE, TRUE)

\* a typed declaration (variable, field, typedef)
TypedDecl(kind, spelling, access, storage, type) ==
    MkCursor(kind, spelling, access, storage, type, TNone, <<>>, TRUE, TRUE)

\* a callable declaration
FnDecl(kind, spelling, access, storage, result, args) ==
    MkCursor(kind, spelling, access, storage, FnType(result, args), result, args, TRUE, TRUE)

(***************************************************************************)
(* Style process                                                           *)
(***************************************************************************)
\* immediate base classes of each Meta class (class statements of the source)
Bases(cls) ==
    CASE cls \in {"ClassMethodMeta"} -> <<"FunctionMeta">>
      [] cls \in {"ClassStaticMethodMeta", "ConstructorMeta"} -> <<"ClassMethodMeta">>
      [] cls = "StructMeta" -> <<"ClassMeta">>
      [] cls = "StructFieldMeta" -> <<"ClassPropertyMeta">>
      [] cls = "ProjectMeta" -> <<"NamespaceMeta">>
      [] cls = "MetaInfo" -> <<>>
      [] OTHER -> <<"MetaInfo">>

IsInstance(cls, of) ==
    \/ cls = of
    \/ \E b \in Range(Bases(cls)) :
          \/ b = of
          \/ \E bb \in Range(Bases(b)) : bb = of \/ of \in Range(Bases(bb))

\* the empty style sheet: every getter falls back to its hardcoded default
DefaultStyleSheet == [c \in {} |-> [p \in {} |-> <<>>]]

\* get_style returns a set: {} for None, {v} for a value found.
StyleOf(sheet, cls, style_name) ==
    IF cls \in DOMAIN sheet /\ style_name \in DOMAIN sheet[cls]
    THEN {sheet[cls][style_name]} ELSE {}

RECURSIVE FirstStyle(_, _, _)
FirstStyle(sheet, bases, style_name) ==
    IF bases = <<>> THEN {}
    ELSE IF StyleOf(sheet, Head(bases), style_name) # {}
         THEN StyleOf(sheet, Head(bases), style_name)
         ELSE FirstStyle(sheet, Tail(bases), style_name)

\* variant: the lookup walks the whole inheritance chain
RECURSIVE get_style_whole_chain(_, _, _)
get_style_whole_chain(sheet, cls, style_name) ==
    IF StyleOf(sheet, cls, style_name) # {} THEN StyleOf(sheet, cls, style_name)
    ELSE IF Bases(cls) = <<>> THEN {}
    ELSE get_style_whole_chain(sheet, Head(Bases(cls)), style_name)

get_style(sheet, cls, style_name) ==
    IF StyleOf(sheet, cls, style_name) # {}
    THEN StyleOf(sheet, cls, style_name)
    ELSE FirstStyle(sheet, Bases(cls), style_name)

\* `get_style(...) or default` for string- and number-valued properties
OrDefault(found, falsy, default) ==
    IF found = {} THEN default
    ELSE LET v == CHOOSE x \in found : TRUE
         IN IF v = falsy THEN default ELSE v

\* load_style_sheets: the four configurations read at import.  The yaml files
\* are input data; these four exercise own-kind, base-kind and grandparent-kind
\* blocks and empty / zero values.
style_sheets ==
    [embind |-> DefaultStyleSheet,
     pre_js |-> [MetaInfo |-> [tagging_suffix |-> <<";">>, indent_space |-> 2],
                 FunctionMeta |-> [tagging_type |-> <<"fn">>],
                 ClassMethodMeta |-> [tagging_type |-> <<"method">>]],
     d_ts |-> [MetaInfo |-> [mangling_seperator |-> <<>>, indent_space |-> 0,
                             tagging_suffix |-> <<>>]],
     webidl |-> [MetaInfo |-> [mangling_seperator |-> <<".">>],
                 ClassMeta |-> [mangling_prefix |-> <<"K", "_">>]]]

\* variant: an unknown name selects an empty configuration instead of raising
select_style_sheet_lenient(sheets, current, style_name) ==
    IF style_name \notin DOMAIN sheets
    THEN [current_style_sheet |-> DefaultStyleSheet, raised |-> ""]
    ELSE [current_style_sheet |-> sheets[style_name], raised |-> ""]

\* select_style_sheet(style_name): the new value of the global and the
\* exception raised ("" for a normal return)
select_style_sheet(sheets, current, style_name) ==
    IF style_name \notin DOMAIN sheets
    THEN [current_style_sheet |-> current, raised |-> "KeyError"]
    ELSE [current_style_sheet |-> sheets[style_name], raised |-> ""]

(***************************************************************************)
(* Meta objects                                                            *)
(***************************************************************************)
\* MetaInfo.__init__ up to the call of process(), plus the fields the
\* subclasses' __init__ set before calling super().__init__.
MetaInfoInit(cls, cursor, parent) ==
    [cls |-> cls, cursor |-> cursor, parent |-> parent,
     ast_name |-> cursor.spelling,
     ast_type_name |-> TypeSpelling(cursor.type),
     should_be_ignored |-> FALSE, ignored_reason |-> <<>>,
     \* FunctionMeta
     return_type |-> <<>>, args |-> <<>>, args_count |-> 0,
     is_static |-> FALSE, is_overloaded |-> FALSE,
     returns_raw_pointer |-> FALSE, takes_raw_pointer |-> FALSE,
     has_any_void_pointer |-> FALSE, has_any_nonconst_reference |-> FALSE,
     \* ClassStaticValueMeta
     is_constant |-> FALSE,
     \* EnumMeta
     values |-> <<>>,
     \* ClassMeta
     constructors |-> <<>>, methods |-> <<>>, fields |-> <<>>, enums |-> <<>>,
     structs |-> <<>>, classes |-> <<>>, static_values |-> <<>>,
     is_derived |-> FALSE, base_class_name |-> <<>>,
     \* NamespaceMeta (type_defs also ClassMeta)
     type_defs |-> <<>>, definations |-> <<>>, namespaces |-> <<>>,
     \* STLContainerMeta
     container_type |-> <<>>, template_args |-> <<>>]

FakeCursor ==
    MkCursor("root", <<"MainModule">>, "INVALID", "NONE",
             MkType(<<>>, <<"root">>, FALSE, ""), TNone, <<>>, TRUE, TRUE)

ProjectMetaInit == MetaInfoInit("ProjectMeta", FakeCursor, None)

is_top_level(E, e) == E[e].parent # None /\ E[E[e].parent].cls = "ProjectMeta"

(***************************************************************************)
(* Names                                                                   *)
(***************************************************************************)
\* '%(a)s%(b)s...' % info: a template is a sequence of placeholder keys and
\* literal chunks; info maps keys to strings.
Ph(key) == [ph |-> key]
Lit(text) == [lit |-> text]

RECURSIVE Format(_, _)
Format(template, info) ==
    IF template = <<>> THEN <<>>
    ELSE LET h == Head(template)
         IN (IF "ph" \in DOMAIN h THEN info[h.ph] ELSE h.lit)
            \o Format(Tail(template), info)

get_ast_name(E, e) == E[e].ast_name

DefaultFullNameTemplate == <<Ph("parent_name"), Ph("seperator"), Ph("ast_name")>>

get_full_name_template(sheet, E, e) ==
    OrDefault(get_style(sheet, E[e].cls, "full_name_template"), <<>>, DefaultFullNameTemplate)

get_full_name_seperator(sheet, E, e) ==
    OrDefault(get_style(sheet, E[e].cls, "full_name_seperator"), <<>>, <<":", ":">>)

DefaultManglingTemplate ==
    <<Ph("parent_mangled_name"), Ph("seperator"), Ph("type_prefix"), Ph("self_mangled_name")>>

get_mangling_template(sheet, E, e) ==
    OrDefault(get_style(sheet, E[e].cls, "mangling_template"), <<>>, DefaultManglingTemplate)

get_mangling_seperator(sheet, E, e) ==
    OrDefault(get_style(sheet, E[e].cls, "mangling_seperator"), <<>>, <<"_", "_">>)

\* variant: StructMeta without its own get_mangling_prefix (inherits 'C_')
DefaultManglingPrefixInherited(E, e) ==
    CASE E[e].cls = "EnumMeta" -> <<"E", "_">>
      [] E[e].cls \in {"ClassMeta", "StructMeta"} -> <<"C", "_">>
      [] E[e].cls \in {"NamespaceMeta", "ProjectMeta"} -> <<"N", "_">>
      [] OTHER -> <<>>

\* the hardcoded prefix of each class's get_mangling_prefix override
DefaultManglingPrefix(E, e) ==
    CASE E[e].cls = "EnumMeta" -> <<"E", "_">>
      [] E[e].cls = "ClassMeta" -> <<"C", "_">>
      [] E[e].cls = "StructMeta" -> <<"S", "_">>
      [] E[e].cls \in {"NamespaceMeta", "ProjectMeta"} -> <<"N", "_">>
      [] OTHER -> <<>>

STLManglingPrefix(container_type) ==
    CASE container_type = <<"vector">> -> <<"S", "T", "L", "_", "_", "V", "_">>
      [] container_type = <<"map">> -> <<"S", "T", "L", "_", "_", "M", "_">>
      [] container_type = <<"set">> -> <<"S", "T", "L", "_", "_", "S", "_">>
      [] container_type = <<"unordered_map">> -> <<"S", "T", "L", "_", "_", "U", "M", "_">>
      [] container_type = <<"unordered_set">> -> <<"S", "T", "L", "_", "_", "U", "S", "_">>
      [] OTHER -> <<"U", "N", "K", "N", "O", "W", "N">>

get_mangling_prefix(sheet, E, e) ==
    IF E[e].cls = "STLContainerMeta"
    THEN LET found == get_style(sheet, E[e].cls, "mangling_prefix")
         IN IF found = {} \/ found = {<<>>}
            THEN STLManglingPrefix(E[e].container_type)
            ELSE LET m == CHOOSE x \in found : TRUE
                 IN IF E[e].container_type \in DOMAIN m /\ m[E[e].container_type] # <<>>
                    THEN m[E[e].container_type]
                    ELSE <<"U", "N", "K", "N", "O", "W", "N">>
    ELSE OrDefault(get_style(sheet, E[e].cls, "mangling_prefix"), <<>>,
                   DefaultManglingPrefix(E, e))

RECURSIVE get_mangled_name(_, _, _)
get_mangled_name(sheet, E, e) ==
    IF E[e].cls = "ProjectMeta" THEN <<>>
    ELSE LET parent_mangled_name == get_mangled_name(sheet, E, E[e].parent)
             name_mangling_info ==
                 [parent_mangled_name |-> parent_mangled_name,
                  self_mangled_name |-> get_ast_name(E, e),
                  seperator |-> IF parent_mangled_name # <<>>
                                THEN get_mangling_seperator(sheet, E, e) ELSE <<>>,
                  type_prefix |-> get_mangling_prefix(sheet, E, e)]
         IN Format(get_mangling_template(sheet, E, e), name_mangling_info)

get_tagging_name(E, e) == E[e].ast_name

RECURSIVE get_full_name(_, _, _)
get_full_name(sheet, E, e) ==
    IF is_top_level(E, e) THEN get_ast_name(E, e)
    ELSE LET full_name_info ==
                 [parent_name |-> get_full_name(sheet, E, E[e].parent),
                  seperator |-> get_full_name_seperator(sheet, E, e),
                  ast_name |-> get_ast_name(E, e),
                  tagging_name |-> get_tagging_name(E, e)]
         IN Format(get_full_name_template(sheet, E, e), full_name_info)

(***************************************************************************)
(* Construction of leaf entities (their process() methods)                 *)
(***************************************************************************)
VoidPtrSpelling == <<"void", " ", "*">>

\* FunctionMeta.process, run on the freshly initialised object E[m]
FunctionMetaProcess(sheet, E, m) ==
    LET cursor == E[m].cursor
        return_type == TypeSpelling(cursor.result_type)
        args == [i \in 1..Len(cursor.arguments) |->
                    TypeSpelling(get_canonical(cursor.arguments[i]))]
        has_any_void_pointer ==
            (\E i \in 1..Len(args) : args[i] = VoidPtrSpelling) \/ return_type = VoidPtrSpelling
        has_any_nonconst_reference ==
            \E i \in 1..Len(args) :
                EndsWith(args[i], <<"&">>) /\ ~StartsWith(args[i], <<"const">>)
        reason1 ==
            IF has_any_void_pointer
            THEN <<"void pointer found in function(embind does not support) : ">>
                 \o get_full_name(sheet, E, m)
            ELSE <<>>
        reason2 ==
            IF has_any_nonconst_reference
            THEN reason1
                 \o <<"non-const reference found in function(embind does not support) : ">>
                 \o get_full_name(sheet, E, m)
            ELSE reason1
    IN [E EXCEPT ![m] =
          [@ EXCEPT !.is_static = (cursor.storage_class = "STATIC"),
                    !.return_type = return_type,
                    !.args = args,
                    !.args_count = Len(args),
                    !.returns_raw_pointer = EndsWith(return_type, <<"*">>),
                    !.takes_raw_pointer = \E i \in 1..Len(args) : EndsWith(args[i], <<"*">>),
                    !.has_any_void_pointer = has_any_void_pointer,
                    !.has_any_nonconst_reference = has_any_nonconst_reference,
                    !.should_be_ignored = has_any_void_pointer \/ has_any_nonconst_reference,
                    !.ignored_reason = reason2]]

\* ClassPropertyMeta.process
ClassPropertyMetaProcess(sheet, E, m) ==
    IF E[m].ast_type_name = VoidPtrSpelling
    THEN [E EXCEPT ![m].should_be_ignored = TRUE,
                   ![m].ignored_reason =
                       <<"void pointer found in class property: ">> \o get_full_name(sheet, E, m)]
    ELSE E

\* cls(cursor, parent) for the classes whose children are not scanned
NewMeta(sheet, E, cls, cursor, parent) ==
    LET m == Len(E) + 1
        E0 == Append(E, MetaInfoInit(cls, cursor, parent))
    IN CASE IsInstance(cls, "FunctionMeta") -> FunctionMetaProcess(sheet, E0, m)
         [] cls = "ClassPropertyMeta" -> ClassPropertyMetaProcess(sheet, E0, m)
         [] OTHER -> E0

(***************************************************************************)
(* Overload grouper                                                        *)
(***************************************************************************)
\* variant: the first member is not marked when the second arrives
HomonymicAddFunctionNoRetro(sheet, E, g, m, check_args_count) ==
    LET E1 == IF Len(g) > 0 THEN [E EXCEPT ![m].is_overloaded = TRUE] ELSE E
    IN IF check_args_count /\ \E i \in 1..Len(g) : E[g[i]].args_count = E[m].args_count
       THEN [E1 EXCEPT ![m].should_be_ignored = TRUE,
                       ![m].ignored_reason =
                           <<"overloaded function with same amount of paramters(embind does not support): ">>
                           \o get_full_name(sheet, E, m)]
       ELSE E1

\* variant: on an arity match the earlier member is marked, not the new one
HomonymicAddFunctionMarkEarlier(sheet, E, g, m, check_args_count) ==
    LET E1 == IF Len(g) > 0 THEN [E EXCEPT ![m].is_overloaded = TRUE] ELSE E
        E2 == IF Len(g) = 1 THEN [E1 EXCEPT ![g[1]].is_overloaded = TRUE] ELSE E1
        clash == {g[i] : i \in {j \in 1..Len(g) : E[g[j]].args_count = E[m].args_count}}
    IN IF check_args_count
       THEN [x \in 1..Len(E2) |->
                IF x \in clash
                THEN [E2[x] EXCEPT !.should_be_ignored = TRUE,
                                   !.ignored_reason =
                                       <<"overloaded function with same amount of paramters(embind does not support): ">>
                                       \o get_full_name(sheet, E, x)]
                ELSE E2[x]]
       ELSE E2

\* variant: the first member's flag is rewritten on every addition
HomonymicAddFunctionRemarkFirst(sheet, E, g, m, check_args_count) ==
    LET E1 == IF Len(g) > 0 THEN [E EXCEPT ![m].is_overloaded = TRUE] ELSE E
        E2 == IF Len(g) > 0 THEN [E1 EXCEPT ![g[1]].is_overloaded = (Len(g) = 1)] ELSE E1
    IN IF check_args_count /\ \E i \in 1..Len(g) : E[g[i]].args_count = E[m].args_count
       THEN [E2 EXCEPT ![m].should_be_ignored = TRUE,
                       ![m].ignored_reason =
                           <<"overloaded function with same amount of paramters(embind does not support): ">>
                           \o get_full_name(sheet, E, m)]
       ELSE E2

\* FunctionHomonymic.add_function: g is homonymic_functions, m the new method
HomonymicAddFunction(sheet, E, g, m, check_args_count) ==
    LET E1 == IF Len(g) > 0 THEN [E EXCEPT ![m].is_overloaded = TRUE] ELSE E
        E2 == IF Len(g) = 1 THEN [E1 EXCEPT ![g[1]].is_overloaded = TRUE] ELSE E1
    IN IF check_args_count /\ \E i \in 1..Len(g) : E[g[i]].args_count = E[m].args_count
       THEN [E2 EXCEPT ![m].should_be_ignored = TRUE,
                       ![m].ignored_reason =
                           <<"overloaded function with same amount of paramters(embind does not support): ">>
                           \o get_full_name(sheet, E, m)]
       ELSE E2

\* Functions.add_function on the dict `fns` (an insertion-ordered sequence of
\* [name, homonymic_functions]); yields the new dict.
GroupIndex(fns, name) ==
    IF \E i \in 1..Len(fns) : fns[i].name = name
    THEN CHOOSE i \in 1..Len(fns) : fns[i].name = name
    ELSE 0

FunctionsWithGroup(fns, name) ==
    IF GroupIndex(fns, name) = 0
    THEN Append(fns, [name |-> name, homonymic_functions |-> <<>>])
    ELSE fns

FunctionsAdd(fns, name, m) ==
    LET fs == FunctionsWithGroup(fns, name)
    IN [fs EXCEPT ![GroupIndex(fs, name)].homonymic_functions = Append(@, m)]

\* variant: the lookup never finds an earlier group
GroupOfNone(fns, name) == <<>>

GroupOf(fns, name) ==
    IF GroupIndex(fns, name) = 0 THEN <<>> ELSE fns[GroupIndex(fns, name)].homonymic_functions

\* variant: constructors are added without the arity check
ConstructorsAddFunctionUnchecked(sheet, E, p, m) ==
    LET name == E[m].ast_name
        E1 == HomonymicAddFunction(sheet, E, GroupOf(E[p].constructors, name), m, FALSE)
    IN [E1 EXCEPT ![p].constructors = FunctionsAdd(@, name, m)]

\* Constructors.add_function(ConstructorMeta(child, self))
ConstructorsAddFunction(sheet, E, p, m) ==
    LET name == E[m].ast_name
        E1 == HomonymicAddFunction(sheet, E, GroupOf(E[p].constructors, name), m, TRUE)
    IN [E1 EXCEPT ![p].constructors = FunctionsAdd(@, name, m)]

\* Functions.add_function(ClassMethodMeta(child, self)) on self.methods
MethodsAddFunction(sheet, E, p, m) ==
    LET name == E[m].ast_name
        E1 == HomonymicAddFunction(sheet, E, GroupOf(E[p].methods, name), m, FALSE)
    IN [E1 EXCEPT ![p].methods = FunctionsAdd(@, name, m)]

(***************************************************************************)
(* Tree builder                                                            *)
(***************************************************************************)
Top == stack[Len(stack)].id

IsNamespaceLike(E, e) == IsInstance(E[e].cls, "NamespaceMeta")
IsClassLike(E, e) == IsInstance(E[e].cls, "ClassMeta")

Scanning == pc = "process" /\ in_header
InNamespaceScope == Scanning /\ IsNamespaceLike(ent, Top)
InClassScope == Scanning /\ IsClassLike(ent, Top)
InEnumScope == Scanning /\ ent[Top].cls = "EnumMeta"

BuildUnchanged ==
    UNCHANGED <<pc, in_header, includes, types_can_be_registered, stl_containers,
                flattens, output, current_style_sheet, style_call,
                   output_file, raised>>

\* variant: children of included files are scanned as well
ScanFilterAnyFile(c) == c.kind # "LINKAGE_SPEC" /\ c.is_definition

\* the filter at the head of scan_structure
ScanFilter(c) == c.kind # "LINKAGE_SPEC" /\ c.in_scanned_file /\ c.is_definition

\* variant: no access filter
PublicFilterNone(c) == TRUE

\* the filter at the head of ClassMeta.add_definations
PublicFilter(c) == c.access_specifier = "PUBLIC"

\* variant: a repeated namespace is never found
NamespaceNamedNever(E, p, name) == 0

\* parent.namespaces.get(name): 0 for None
NamespaceNamed(E, p, name) ==
    IF \E i \in 1..Len(E[p].namespaces) : E[E[p].namespaces[i]].ast_name = name
    THEN E[p].namespaces[CHOOSE i \in 1..Len(E[p].namespaces) :
                             E[E[p].namespaces[i]].ast_name = name]
    ELSE 0

\* a child the scan_structure filter removes: nothing is built
ScanFiltered(c) ==
    /\ InNamespaceScope
    /\ ~ScanFilter(c)
    /\ child' = c
    /\ UNCHANGED <<ent, stack>>
    /\ BuildUnchanged

\* scan_structure, NAMESPACE branch: NamespaceMeta(child, parent, ...) starts
\* scanning a new namespace, or add_definations(child) re-enters a known one
ScanNamespace(c) ==
    /\ InNamespaceScope
    /\ ScanFilter(c)
    /\ c.kind = "NAMESPACE"
    /\ child' = c
    /\ IF NamespaceNamed(ent, Top, c.spelling) = 0
       THEN /\ ent' = Append(ent, MetaInfoInit("NamespaceMeta", c, Top))
            /\ stack' = Append(stack, [id |-> Len(ent) + 1, mode |-> "new"])
       ELSE /\ ent' = ent
            /\ stack' = Append(stack, [id |-> NamespaceNamed(ent, Top, c.spelling),
                                       mode |-> "merge"])
    /\ BuildUnchanged

\* scan_structure, VAR_DECL branch
ScanVarDecl(c) ==
    /\ InNamespaceScope
    /\ ScanFilter(c)
    /\ c.kind = "VAR_DECL"
    /\ child' = c
    /\ IF is_const_qualified(c.type)
       THEN ent' = [NewMeta(current_style_sheet, ent, "ConstantValueMeta", c, Top)
                       EXCEPT ![Top].definations = Append(@, Len(ent) + 1)]
       ELSE ent' = ent
    /\ UNCHANGED stack
    /\ BuildUnchanged

\* scan_structure, FUNCTION_DECL branch
ScanFunctionDecl(c) ==
    /\ InNamespaceScope
    /\ ScanFilter(c)
    /\ c.kind = "FUNCTION_DECL"
    /\ child' = c
    /\ ent' = [NewMeta(current_style_sheet, ent, "FunctionMeta", c, Top)
                  EXCEPT ![Top].definations = Append(@, Len(ent) + 1)]
    /\ UNCHANGED stack
    /\ BuildUnchanged

\* scan_structure, CLASS_DECL / STRUCT_DECL / ENUM_DECL branches: the
\* constructor starts; the object is appended when the constructor returns
ScanCompositeDecl(c) ==
    /\ InNamespaceScope
    /\ ScanFilter(c)
    /\ c.kind \in {"CLASS_DECL", "STRUCT_DECL", "ENUM_DECL"}
    /\ child' = c
    /\ ent' = Append(ent, MetaInfoInit(CASE c.kind = "CLASS_DECL" -> "ClassMeta"
                                         [] c.kind = "STRUCT_DECL" -> "StructMeta"
                                         [] OTHER -> "EnumMeta", c, Top))
    /\ stack' = Append(stack, [id |-> Len(ent) + 1, mode |-> "new"])
    /\ BuildUnchanged

\* scan_structure, TYPEDEF_DECL branch
ScanTypedefDecl(c) ==
    /\ InNamespaceScope
    /\ ScanFilter(c)
    /\ c.kind = "TYPEDEF_DECL"
    /\ child' = c
    /\ ent' = [NewMeta(current_style_sheet, ent, "TypeDefMeta", c, Top)
                  EXCEPT ![Top].type_defs = Append(@, Len(ent) + 1)]
    /\ UNCHANGED stack
    /\ BuildUnchanged

\* scan_structure, CXX_ACCESS_SPEC_DECL and `else` branches: logged, skipped
ScanIgnoredItem(c) ==
    /\ InNamespaceScope
    /\ ScanFilter(c)
    /\ c.kind \notin {"NAMESPACE", "VAR_DECL", "FUNCTION_DECL", "CLASS_DECL",
                      "STRUCT_DECL", "ENUM_DECL", "TYPEDEF_DECL"}
    /\ child' = c
    /\ UNCHANGED <<ent, stack>>
    /\ BuildUnchanged

\* a child the add_definations filter removes: nothing is built
AddFiltered(c) ==
    /\ InClassScope
    /\ ~PublicFilter(c)
    /\ child' = c
    /\ UNCHANGED <<ent, stack>>
    /\ BuildUnchanged

\* add_definations, CXX_BASE_SPECIFIER branch
AddBaseSpecifier(c) ==
    /\ InClassScope
    /\ PublicFilter(c)
    /\ c.kind = "CXX_BASE_SPECIFIER"
    /\ child' = c
    /\ ent' = [ent EXCEPT ![Top].is_derived = TRUE,
                          ![Top].base_class_name = TypeSpelling(c.type)]
    /\ UNCHANGED stack
    /\ BuildUnchanged

\* add_definations, CONSTRUCTOR branch
AddConstructor(c) ==
    /\ InClassScope
    /\ PublicFilter(c)
    /\ c.kind = "CONSTRUCTOR"
    /\ child' = c
    /\ ent' = ConstructorsAddFunction(current_style_sheet,
                  NewMeta(current_style_sheet, ent, "ConstructorMeta", c, Top),
                  Top, Len(ent) + 1)
    /\ UNCHANGED stack
    /\ BuildUnchanged

\* add_definations, CXX_METHOD branch
AddMethod(c) ==
    /\ InClassScope
    /\ PublicFilter(c)
    /\ c.kind = "CXX_METHOD"
    /\ child' = c
    /\ ent' = MethodsAddFunction(current_style_sheet,
                  NewMeta(current_style_sheet, ent,
                          IF c.storage_class = "STATIC" THEN "ClassStaticMethodMeta"
                          ELSE "ClassMethodMeta", c, Top),
                  Top, Len(ent) + 1)
    /\ UNCHANGED stack
    /\ BuildUnchanged

\* add_definations, static VAR_DECL / FIELD_DECL / TYPEDEF_DECL branches
AddPlainMember(c) ==
    /\ InClassScope
    /\ PublicFilter(c)
    /\ \/ c.kind = "VAR_DECL" /\ c.storage_class = "STATIC"
       \/ c.kind \in {"FIELD_DECL", "TYPEDEF_DECL"}
    /\ child' = c
    /\ ent' = CASE c.kind = "VAR_DECL" ->
                     [NewMeta(current_style_sheet, ent, "ClassStaticValueMeta", c, Top)
                         EXCEPT ![Top].static_values = Append(@, Len(ent) + 1)]
                [] c.kind = "FIELD_DECL" ->
                     [NewMeta(current_style_sheet, ent, "ClassPropertyMeta", c, Top)
                         EXCEPT ![Top].fields = Append(@, Len(ent) + 1)]
                [] OTHER ->
                     [NewMeta(current_style_sheet, ent, "TypeDefMeta", c, Top)
                         EXCEPT ![Top].type_defs = Append(@, Len(ent) + 1)]
    /\ UNCHANGED stack
    /\ BuildUnchanged

\* add_definations, ENUM_DECL / STRUCT_DECL / CLASS_DECL branches
AddNestedDecl(c) ==
    /\ InClassScope
    /\ PublicFilter(c)
    /\ c.kind \in {"CLASS_DECL", "STRUCT_DECL", "ENUM_DECL"}
    /\ child' = c
    /\ ent' = Append(ent, MetaInfoInit(CASE c.kind = "CLASS_DECL" -> "ClassMeta"
                                         [] c.kind = "STRUCT_DECL" -> "StructMeta"
                                         [] OTHER -> "EnumMeta", c, Top))
    /\ stack' = Append(stack, [id |-> Len(ent) + 1, mode |-> "new"])
    /\ BuildUnchanged

\* add_definations, DESTRUCTOR / FUNCTION_TEMPLATE / CXX_ACCESS_SPEC_DECL /
\* `else` branches, and a non-static VAR_DECL: nothing is built
AddIgnoredItem(c) ==
    /\ InClassScope
    /\ PublicFilter(c)
    /\ c.kind \notin {"CXX_BASE_SPECIFIER", "CONSTRUCTOR", "FIELD_DECL", "CXX_METHOD",
                      "ENUM_DECL", "STRUCT_DECL", "CLASS_DECL", "TYPEDEF_DECL"}
    /\ ~(c.kind = "VAR_DECL" /\ c.storage_class = "STATIC")
    /\ child' = c
    /\ UNCHANGED <<ent, stack>>
    /\ BuildUnchanged

\* EnumMeta.process: one iteration of the loop over the enum's children
AddEnumValue(c) ==
    /\ InEnumScope
    /\ child' = c
    /\ ent' = [NewMeta(current_style_sheet, ent, "EnumValueMeta", c, Top)
                  EXCEPT ![Top].values = Append(@, Len(ent) + 1)]
    /\ UNCHANGED stack
    /\ BuildUnchanged

\* The loop over the children of the innermost scope ends.  A constructor
\* returns its object to the branch that called it, which stores it; a
\* re-entered namespace (add_definations) just returns.
EndChildren ==
    /\ Scanning
    /\ Len(stack) > 1
    /\ LET t == Top
           p == stack[Len(stack) - 1].id
       IN ent' = IF stack[Len(stack)].mode = "merge" THEN ent
                 ELSE IF ent[t].cls = "NamespaceMeta"
                      THEN [ent EXCEPT ![p].namespaces = Append(@, t)]
                 ELSE IF IsNamespaceLike(ent, p)
                      THEN [ent EXCEPT ![p].definations = Append(@, t)]
                 ELSE IF ent[t].cls = "EnumMeta"
                      THEN [ent EXCEPT ![p].enums = Append(@, t)]
                 ELSE IF ent[t].cls = "StructMeta"
                      THEN [ent EXCEPT ![p].structs = Append(@, t)]
                 ELSE [ent EXCEPT ![p].classes = Append(@, t)]
    /\ stack' = SubSeq(stack, 1, Len(stack) - 1)
    /\ UNCHANGED child
    /\ BuildUnchanged

\* ProjectMeta.process: index.parse(header) and the start of its scan
BeginHeader ==
    /\ pc = "process"
    /\ ~in_header
    /\ Len(includes) < MaxHeaders
    /\ in_header' = TRUE
    /\ UNCHANGED <<ent, stack, child, pc, includes, types_can_be_registered,
                   stl_containers, flattens, output, current_style_sheet, style_call,
                   output_file, raised>>

\* ProjectMeta.process: the scan of the header returns; its path is recorded
EndHeader ==
    /\ Scanning
    /\ Len(stack) = 1
    /\ in_header' = FALSE
    /\ includes' = Append(includes, Len(includes) + 1)
    /\ UNCHANGED <<ent, stack, child, pc, types_can_be_registered,
                   stl_containers, flattens, output, current_style_sheet, style_call,
                   output_file, raised>>

(***************************************************************************)
(* Container-usage collector                                               *)
(***************************************************************************)
RECURSIVE FlatMap(_, _, _)
\* concatenation of Op(E, x) over the members x of a list
FlatMap(Op(_, _), E, list) ==
    IF list = <<>> THEN <<>> ELSE Op(E, Head(list)) \o FlatMap(Op, E, Tail(list))

\* FunctionIterator
FunctionIterator(fns) ==
    Concat([i \in 1..Len(fns) |-> fns[i].homonymic_functions])

RECURSIVE ClassMetaIterator(_, _)
ClassMetaIterator(E, c) ==
    E[c].fields \o E[c].static_values \o E[c].enums \o E[c].type_defs
    \o FunctionIterator(E[c].constructors) \o FunctionIterator(E[c].methods)
    \o FlatMap(ClassMetaIterator, E, E[c].structs)
    \o FlatMap(ClassMetaIterator, E, E[c].classes)

DefinationItems(E, item) ==
    IF IsClassLike(E, item) THEN ClassMetaIterator(E, item) ELSE <<item>>

RECURSIVE NamespaceMetaInfoIterator(_, _)
NamespaceMetaInfoIterator(E, ns) ==
    E[ns].type_defs
    \o FlatMap(DefinationItems, E, E[ns].definations)
    \o FlatMap(NamespaceMetaInfoIterator, E, E[ns].namespaces)

\* get_all_relavant_types of MetaInfo, TypeDefMeta and FunctionMeta
get_all_relavant_types(E, e) ==
    LET cursor == E[e].cursor
    IN CASE E[e].cls = "TypeDefMeta" -> <<get_canonical(cursor.type)>>
         [] IsInstance(E[e].cls, "FunctionMeta") ->
              <<get_canonical(cursor.result_type)>>
              \o [i \in 1..Len(cursor.arguments) |-> get_canonical(cursor.arguments[i])]
         [] OTHER -> <<cursor.type>>

stl_containers_can_be_registered == <<"std::vector", "std::map">>

\* types_can_be_registered[key] = value on an insertion-ordered dict, kept
\* as the sequence of its values (the key is the value's spelling)
DictPut(dict, t) ==
    IF \E i \in 1..Len(dict) : TypeSpelling(dict[i]) = TypeSpelling(t)
    THEN [i \in 1..Len(dict) |->
             IF TypeSpelling(dict[i]) = TypeSpelling(t) THEN t ELSE dict[i]]
    ELSE Append(dict, t)

\* the key STLContainerFilter.filter records for one matching used type
RegisteredType(used_type) ==
    IF TypeKind(used_type) \in {"LVALUEREFERENCE", "RVALUEREFERENCE"}
    THEN get_pointee(used_type) ELSE used_type

RECURSIVE FilterTypes(_, _, _)
FilterTypes(dict, stl_type, types) ==
    IF types = <<>> THEN dict
    ELSE FilterTypes(IF stl_type \in Range(TypeSpelling(Head(types)))
                     THEN DictPut(dict, RegisteredType(Head(types)))
                     ELSE dict,
                     stl_type, Tail(types))

RECURSIVE FilterStl(_, _, _)
FilterStl(dict, stl_types, types) ==
    IF stl_types = <<>> THEN dict
    ELSE FilterStl(FilterTypes(dict, Head(stl_types), types), Tail(stl_types), types)

\* STLContainerFilter.filter(metaInfo)
STLContainerFilter(dict, E, e) ==
    FilterStl(dict, stl_containers_can_be_registered, get_all_relavant_types(E, e))

\* ProjectMetaInfoPump.pump
RECURSIVE PumpItems(_, _, _)
PumpItems(dict, E, items) ==
    IF items = <<>> THEN dict
    ELSE PumpItems(STLContainerFilter(dict, E, Head(items)), E, Tail(items))

Pump(E) == PumpItems(<<>>, E, NamespaceMetaInfoIterator(E, Root))

\* STLContainerMeta.process: pieces of the spelling
IndexOf(s, tok) == IF tok \in Range(s) THEN CHOOSE i \in 1..Len(s) : s[i] = tok /\ \A j \in 1..(i - 1) : s[j] # tok ELSE 0

\* ast_name.split('<')[0].split('::')[-1]
ContainerTypeOf(spelling) ==
    LET head == IF IndexOf(spelling, "<") = 0 THEN spelling
                ELSE SubSeq(spelling, 1, IndexOf(spelling, "<") - 1)
        last == IF head = <<>> THEN "" ELSE head[Len(head)]
    IN CASE last = "std::vector" -> <<"vector">>
         [] last = "std::map" -> <<"map">>
         [] OTHER -> <<last>>

\* ast_name.split('<')[1].split('>')[0]
TemplateArgsOf(spelling) ==
    LET rest == SubSeq(spelling, IndexOf(spelling, "<") + 1, Len(spelling))
        upto == IF IndexOf(rest, "<") = 0 THEN rest ELSE SubSeq(rest, 1, IndexOf(rest, "<") - 1)
    IN IF IndexOf(upto, ">") = 0 THEN upto ELSE SubSeq(upto, 1, IndexOf(upto, ">") - 1)

\* ''.join(arg.strip().capitalize() for arg in ...): per type-name token
Capitalized(tok) ==
    CASE tok = "int" -> <<"I", "n", "t">>
      [] tok = "double" -> <<"D", "o", "u", "b", "l", "e">>
      [] OTHER -> <<tok>>

ArgumentCombined(template_args) ==
    Concat([i \in 1..Len(template_args) |->
               IF template_args[i] \in {", ", ",", " "} THEN <<>>
               ELSE Capitalized(template_args[i])])

\* STLContainerMeta(type, self)
STLContainerMetaInit(t) ==
    LET type_cursor == MkCursor(TypeKind(t), TypeSpelling(t), "INVALID", "NONE",
                                TNone, TNone, <<>>, TRUE, TRUE)
        base == MetaInfoInit("STLContainerMeta", type_cursor, Root)
    IN [base EXCEPT !.container_type = ContainerTypeOf(base.ast_name),
                    !.template_args = TemplateArgsOf(base.ast_name),
                    !.ast_name = ArgumentCombined(TemplateArgsOf(base.ast_name))]

\* ProjectMeta.process after the loop over the headers: pump the tree
\* through the filter and create one STLContainerMeta per collected value
FinishProcess ==
    /\ pc = "process"
    /\ ~in_header
    /\ LET dict == Pump(ent)
       IN /\ types_can_be_registered' = dict
          /\ ent' = ent \o [i \in 1..Len(dict) |-> STLContainerMetaInit(dict[i])]
          /\ stl_containers' = [i \in 1..Len(dict) |-> Len(ent) + i]
    /\ pc' = "constructed"
    /\ UNCHANGED <<stack, child, in_header, includes, flattens, output,
                   current_style_sheet, style_call,
                   output_file, raised>>

(***************************************************************************)
(* Flatten pass                                                            *)
(***************************************************************************)
\* list.remove(x): drops the first occurrence
RECURSIVE RemoveFirst(_, _)
RemoveFirst(list, x) ==
    IF list = <<>> THEN <<>>
    ELSE IF Head(list) = x THEN Tail(list)
    ELSE <<Head(list)>> \o RemoveFirst(Tail(list), x)

RECURSIVE RemoveAll(_, _)
RemoveAll(list, xs) ==
    IF xs = <<>> THEN list ELSE RemoveAll(RemoveFirst(list, Head(xs)), Tail(xs))

\* variant: the relink also re-parents the class
UnnestSelfReparent(E, c, namespace) ==
    [E EXCEPT ![namespace].definations = Append(@, c) \o E[c].enums,
              ![c].enums = <<>>,
              ![c].parent = namespace]

\* variant: the enums of the class are forgotten without being relinked
UnnestSelfDropEnums(E, c, namespace) ==
    [E EXCEPT ![namespace].definations = Append(@, c),
              ![c].enums = <<>>]

\* ClassMeta.unnest_to_namespace, first part: the class appends itself and
\* its enums to the namespace's definations and forgets its enums
UnnestSelf(E, c, namespace) ==
    [E EXCEPT ![namespace].definations = Append(@, c) \o E[c].enums,
              ![c].enums = <<>>]

RECURSIVE unnest_to_namespace(_, _, _)
RECURSIVE UnnestEach(_, _, _)
UnnestEach(E, list, namespace) ==
    IF list = <<>> THEN E
    ELSE UnnestEach(unnest_to_namespace(E, Head(list), namespace), Tail(list), namespace)

unnest_to_namespace(E, c, namespace) ==
    LET E1 == UnnestSelf(E, c, namespace)
        E2 == [UnnestEach(E1, E1[c].classes, namespace) EXCEPT ![c].classes = <<>>]
        E3 == [UnnestEach(E2, E2[c].structs, namespace) EXCEPT ![c].structs = <<>>]
    IN E3

\* NamespaceMeta.flatten
RECURSIVE NamespaceFlatten(_, _)
RECURSIVE FlattenEach(_, _)
FlattenEach(E, list) ==
    IF list = <<>> THEN E ELSE FlattenEach(NamespaceFlatten(E, Head(list)), Tail(list))

NamespaceFlatten(E, ns) ==
    LET classes == SelectSeq(E[ns].definations, LAMBDA d : IsClassLike(E, d))
        E1 == [E EXCEPT ![ns].definations = RemoveAll(@, classes)]
        E2 == UnnestEach(E1, classes, ns)
    IN FlattenEach(E2, E2[ns].namespaces)

\* ProjectMeta.flatten
ProjectFlatten(E) == FlattenEach(E, E[Root].namespaces)

Flatten ==
    /\ pc \in {"constructed", "flattened"}
    /\ flattens < MaxFlatten
    /\ ent' = ProjectFlatten(ent)
    /\ flattens' = flattens + 1
    /\ pc' = "flattened"
    /\ UNCHANGED <<stack, child, in_header, includes, types_can_be_registered,
                   stl_containers, output, current_style_sheet, style_call,
                   output_file, raised>>

(***************************************************************************)
(* Tagging (rendering)                                                     *)
(* A fragment is a sequence of physical lines [spaces, text].              *)
(***************************************************************************)
get_indent_space(sheet, E, e) ==
    OrDefault(get_style(sheet, E[e].cls, "indent_space"), 0, 4)

DefaultTaggingPrefix(cls) ==
    IF cls = "ClassPropertyMeta" \/ cls = "ClassStaticValueMeta"
       \/ IsInstance(cls, "ClassMethodMeta")
    THEN <<".">> ELSE <<>>

get_tagging_prefix(sheet, E, e) ==
    OrDefault(get_style(sheet, E[e].cls, "tagging_prefix"), <<>>,
              DefaultTaggingPrefix(E[e].cls))

DefaultTaggingType(E, e) ==
    CASE E[e].cls = "EnumValueMeta" -> <<"value">>
      [] E[e].cls = "EnumMeta" -> <<"enum_">>
      [] E[e].cls = "ConstantValueMeta" -> <<"constant">>
      [] E[e].cls \in {"FunctionMeta", "ClassMethodMeta"} -> <<"function">>
      [] E[e].cls = "ClassStaticMethodMeta" -> <<"class_function">>
      [] E[e].cls = "ConstructorMeta" -> <<"constructor">>
      [] E[e].cls = "ClassPropertyMeta" -> <<"property">>
      [] E[e].cls = "ClassStaticValueMeta" -> <<"class_property">>
      [] E[e].cls \in {"ClassMeta", "StructMeta"} -> <<"class_">>
      [] OTHER -> <<"UNKNOWN">>

get_tagging_type(sheet, E, e) ==
    IF E[e].cls = "STLContainerMeta" THEN E[e].container_type
    ELSE OrDefault(get_style(sheet, E[e].cls, "tagging_type"), <<>>, DefaultTaggingType(E, e))

DefaultTaggingSuffix(cls) ==
    IF cls \in {"STLContainerMeta", "ConstantValueMeta", "FunctionMeta"}
    THEN <<";">> ELSE <<>>

get_tagging_suffix(sheet, E, e) ==
    OrDefault(get_style(sheet, E[e].cls, "tagging_suffix"), <<>>,
              DefaultTaggingSuffix(E[e].cls))

get_return_value_policy(sheet, E, e) ==
    OrDefault(get_style(sheet, E[e].cls, "return_value_policy"), <<>>,
              <<"return_value_policy::reference()">>)

RECURSIVE JoinArgs(_)
JoinArgs(args) ==
    IF args = <<>> THEN <<>>
    ELSE IF Len(args) = 1 THEN args[1]
    ELSE args[1] \o <<", ">> \o JoinArgs(Tail(args))

pointer_policy(E, e) ==
    IF E[e].returns_raw_pointer THEN <<", return_value_policy::reference()">>
    ELSE IF E[e].takes_raw_pointer THEN <<", allow_raw_pointers()">>
    ELSE <<>>

\* MetaInfo.gather_tagging_info
BaseTaggingInfo(sheet, E, e) ==
    [type_name |-> E[e].ast_type_name,
     tagging_type |-> get_tagging_type(sheet, E, e),
     ast_name |-> get_ast_name(E, e),
     tagging_name |-> get_tagging_name(E, e),
     full_name |-> get_full_name(sheet, E, e),
     mangled_name |-> get_mangled_name(sheet, E, e),
     prefix |-> get_tagging_prefix(sheet, E, e),
     suffix |-> get_tagging_suffix(sheet, E, e)]

\* gather_tagging_info with the keys each subclass merges in
gather_tagging_info(sheet, E, e) ==
    CASE E[e].cls = "STLContainerMeta" ->
           [tagging_type |-> E[e].container_type, template_args |-> E[e].template_args]
           @@ BaseTaggingInfo(sheet, E, e)
      [] IsInstance(E[e].cls, "FunctionMeta") ->
           [return_type |-> E[e].return_type, args |-> JoinArgs(E[e].args),
            signature |-> E[e].ast_type_name, pointer_policy |-> pointer_policy(E, e)]
           @@ BaseTaggingInfo(sheet, E, e)
      [] E[e].cls = "ClassPropertyMeta" ->
           [return_value_policy |-> get_return_value_policy(sheet, E, e)]
           @@ BaseTaggingInfo(sheet, E, e)
      [] IsClassLike(E, e) ->
           [base_class_name |-> E[e].base_class_name] @@ BaseTaggingInfo(sheet, E, e)
      [] OTHER -> BaseTaggingInfo(sheet, E, e)

\* the hardcoded template of each class's get_tagging_template
DefaultTaggingTemplate(E, e) ==
    CASE E[e].cls = "STLContainerMeta" ->
           <<Ph("prefix"), Lit(<<"register_">>), Ph("tagging_type"), Lit(<<"<">>),
             Ph("template_args"), Lit(<<">(\"">>), Ph("mangled_name"), Lit(<<"\")">>),
             Ph("suffix")>>
      [] E[e].cls = "EnumValueMeta" ->
           <<Lit(<<".">>), Ph("tagging_type"), Lit(<<"(\"">>), Ph("tagging_name"),
             Lit(<<"\", ">>), Ph("type_name"), Lit(<<"::">>), Ph("ast_name"), Lit(<<")">>)>>
      [] E[e].cls = "EnumMeta" ->
           <<Ph("prefix"), Ph("tagging_type"), Lit(<<"<">>), Ph("type_name"),
             Lit(<<">(\"">>), Ph("mangled_name"), Lit(<<"\")">>), Ph("suffix")>>
      [] E[e].cls = "ConstantValueMeta" ->
           <<Ph("prefix"), Ph("tagging_type"), Lit(<<"(\"">>), Ph("tagging_name"),
             Lit(<<"\", ">>), Ph("full_name"), Lit(<<")">>), Ph("suffix")>>
      [] E[e].cls = "ConstructorMeta" ->
           <<Ph("prefix"), Ph("tagging_type"), Lit(<<"<">>), Ph("args"), Lit(<<">()">>)>>
      [] IsInstance(E[e].cls, "FunctionMeta") ->
           IF E[e].is_overloaded
           THEN <<Ph("prefix"), Ph("tagging_type"), Lit(<<"(\"">>), Ph("tagging_name"),
                  Lit(<<"\", select_overload<">>), Ph("signature"), Lit(<<">(&">>),
                  Ph("full_name"), Lit(<<")">>), Ph("pointer_policy"), Lit(<<")">>),
                  Ph("suffix")>>
           ELSE <<Ph("prefix"), Ph("tagging_type"), Lit(<<"(\"">>), Ph("tagging_name"),
                  Lit(<<"\", &">>), Ph("full_name"), Ph("pointer_policy"), Lit(<<")">>),
                  Ph("suffix")>>
      [] E[e].cls = "ClassPropertyMeta" ->
           <<Ph("prefix"), Ph("tagging_type"), Lit(<<"(\"">>), Ph("tagging_name"),
             Lit(<<"\", &">>), Ph("full_name"), Lit(<<", ">>), Ph("return_value_policy"),
             Lit(<<")">>)>>
      [] IsClassLike(E, e) ->
           IF E[e].is_derived
           THEN <<Ph("prefix"), Ph("tagging_type"), Lit(<<"<">>), Ph("type_name"),
                  Lit(<<", base<">>), Ph("base_class_name"), Lit(<<">>(\"">>),
                  Ph("mangled_name"), Lit(<<"\")">>), Ph("suffix")>>
           ELSE <<Ph("prefix"), Ph("tagging_type"), Lit(<<"<">>), Ph("type_name"),
                  Lit(<<">(\"">>), Ph("mangled_name"), Lit(<<"\")">>), Ph("suffix")>>
      [] OTHER ->
           <<Ph("prefix"), Ph("tagging_type"), Lit(<<"(\"">>), Ph("tagging_name"),
             Lit(<<"\", &">>), Ph("full_name"), Lit(<<")">>), Ph("suffix")>>

get_tagging_template(sheet, E, e) ==
    LET found == get_style(sheet, E[e].cls, "tagging_template")
    IN IF found = {} \/ found = {<<>>} THEN DefaultTaggingTemplate(E, e)
       ELSE LET t == CHOOSE x \in found : TRUE
            IN IF IsInstance(E[e].cls, "FunctionMeta") /\ E[e].cls # "ConstructorMeta"
               THEN (IF E[e].is_overloaded THEN t.overloaded ELSE t.non_overloaded)
               ELSE IF IsClassLike(E, e)
               THEN (IF E[e].is_derived THEN t.derived ELSE t.non_derived)
               ELSE t

get_comment_template(sheet, E, e) ==
    OrDefault(get_style(sheet, E[e].cls, "comment_template"), <<>>,
              <<Lit(<<"/*">>), Ph("content"), Lit(<<"*/">>)>>)

comment_content(sheet, E, e, content) ==
    Format(get_comment_template(sheet, E, e), [content |-> content])

\* the fragment of an entity that is not ignored: template % tagging_info
PlainContent(sheet, E, e) ==
    Format(get_tagging_template(sheet, E, e), gather_tagging_info(sheet, E, e))

ReasonLine(E, e) == <<"// ", "Ignored due to: ">> \o E[e].ignored_reason

\* variant: an ignored entity renders nothing
TaggingContentDropIgnored(sheet, E, e) ==
    IF E[e].should_be_ignored THEN <<>> ELSE PlainContent(sheet, E, e)

\* the text MetaInfo.tagging builds before indenting it
TaggingContent(sheet, E, e) ==
    IF E[e].should_be_ignored
    THEN ReasonLine(E, e) \o <<"\n">>
         \o comment_content(sheet, E, e, PlainContent(sheet, E, e))
    ELSE PlainContent(sheet, E, e)

IndentLines(content, spaces) ==
    LET lines == Split(content, <<"\n">>)
    IN [i \in 1..Len(lines) |-> [spaces |-> spaces, text |-> lines[i]]]

\* MetaInfo.tagging
MetaInfoTagging(sheet, E, e, indent) ==
    IndentLines(TaggingContent(sheet, E, e), indent * get_indent_space(sheet, E, e))

RECURSIVE Tagging(_, _, _, _)
RECURSIVE TaggingEach(_, _, _, _)
TaggingEach(sheet, E, list, indent) ==
    IF list = <<>> THEN <<>>
    ELSE Tagging(sheet, E, Head(list), indent) \o TaggingEach(sheet, E, Tail(list), indent)

\* EnumMeta.tagging
EnumMetaTagging(sheet, E, e, indent) ==
    MetaInfoTagging(sheet, E, e, indent)
    \o TaggingEach(sheet, E, E[e].values, indent + 1)
    \o <<[spaces |-> indent * get_indent_space(sheet, E, e), text |-> <<";">>]>>

\* ClassMeta.tagging (Functions.tagging and FunctionHomonymic.tagging inlined)
ClassMetaTagging(sheet, E, e, indent) ==
    MetaInfoTagging(sheet, E, e, indent)
    \o TaggingEach(sheet, E, E[e].static_values, indent + 1)
    \o TaggingEach(sheet, E, E[e].enums, indent + 1)
    \o TaggingEach(sheet, E, FunctionIterator(E[e].constructors), indent + 1)
    \o TaggingEach(sheet, E, E[e].fields, indent + 1)
    \o TaggingEach(sheet, E, FunctionIterator(E[e].methods), indent + 1)
    \o TaggingEach(sheet, E, E[e].classes, indent + 1)
    \o TaggingEach(sheet, E, E[e].structs, indent + 1)
    \o <<[spaces |-> indent * 4, text |-> <<";">>]>>

\* NamespaceMeta.tagging
NamespaceMetaTagging(sheet, E, e, indent) ==
    <<[spaces |-> indent * get_indent_space(sheet, E, e),
       text |-> <<"{ using namespace ">> \o E[e].ast_name \o <<";">>]>>
    \o TaggingEach(sheet, E, E[e].definations, indent + 1)
    \o TaggingEach(sheet, E, E[e].namespaces, indent + 1)
    \o <<[spaces |-> indent * get_indent_space(sheet, E, e),
          text |-> <<"} // namespace ">> \o E[e].ast_name]>>

\* ProjectMeta.tagging: the includes, then the registration block holding
\* the fragments of stl_containers, definations and namespaces
ProjectMetaTagging(sheet, E, incl, stl, indent) ==
    LET spaces == indent * get_indent_space(sheet, E, Root)
    IN <<[spaces |-> 0, text |-> <<"#include <emscripten/bind.h>">>]>>
       \o [i \in 1..Len(incl) |-> [spaces |-> 0, text |-> <<"#include ", incl[i]>>]]
       \o <<[spaces |-> spaces, text |-> <<"using namespace emscripten;">>],
            [spaces |-> spaces, text |-> <<"EMSCRIPTEN_BINDINGS(">> \o E[Root].ast_name \o <<") {">>]>>
       \o TaggingEach(sheet, E, stl, indent + 1)
       \o TaggingEach(sheet, E, E[Root].definations, indent + 1)
       \o TaggingEach(sheet, E, E[Root].namespaces, indent + 1)
       \o <<[spaces |-> spaces, text |-> <<"}">>]>>

Tagging(sheet, E, e, indent) ==
    CASE E[e].cls = "EnumMeta" -> EnumMetaTagging(sheet, E, e, indent)
      [] IsClassLike(E, e) -> ClassMetaTagging(sheet, E, e, indent)
      [] E[e].cls = "NamespaceMeta" -> NamespaceMetaTagging(sheet, E, e, indent)
      [] OTHER -> MetaInfoTagging(sheet, E, e, indent)

\* main(): binding_content = project_info.tagging(0)
Render ==
    /\ pc = "flattened"
    /\ output' = ProjectMetaTagging(current_style_sheet, ent, includes, stl_containers, 0)
    /\ pc' = "rendered"
    /\ UNCHANGED <<ent, stack, child, in_header, includes, types_can_be_registered,
                   stl_containers, flattens, current_style_sheet, style_call,
                   output_file, raised>>

\* a client calls select_style_sheet(style_name) before it builds the project
SelectStyleSheet(style_name) ==
    /\ pc = "process"
    /\ ~in_header
    /\ includes = <<>>
    /\ Len(ent) = 1
    /\ LET r == select_style_sheet(style_sheets, current_style_sheet, style_name)
       IN /\ current_style_sheet' = r.current_style_sheet
          /\ style_call' = [style_name |-> style_name, raised |-> r.raised]
    /\ UNCHANGED <<ent, stack, child, pc, in_header, includes, types_can_be_registered,
                   stl_containers, flattens, output, output_file, raised>>

(***************************************************************************)
(* Errors and the output file                                              *)
(***************************************************************************)
\* variant: the output file is opened before the failing step
AbortTruncating(exc) ==
    /\ pc' = "aborted"
    /\ raised' = exc
    /\ output_file' = {<<>>}

\* main() has no handler: an exception ends the run at the raising statement
Abort(exc) ==
    /\ pc' = "aborted"
    /\ raised' = exc
    /\ UNCHANGED output_file

\* ProjectMeta.process: index.parse(header) raises for a header it cannot load
ParseFailure ==
    /\ pc = "process"
    /\ ~in_header
    /\ Len(includes) < MaxHeaders
    /\ Abort(<<"TranslationUnitLoadError">>)
    /\ UNCHANGED <<ent, stack, child, in_header, includes, types_can_be_registered,
                   stl_containers, flattens, output, current_style_sheet, style_call>>

\* ProjectMeta.tagging: template.render raises; the handler prints the
\* template error and re-raises
RenderRaises ==
    /\ pc = "flattened"
    /\ Abort(<<"TemplateError">>)
    /\ UNCHANGED <<ent, stack, child, in_header, includes, types_can_be_registered,
                   stl_containers, flattens, output, current_style_sheet, style_call>>

\* main(): with open(dest_dir/embind_bindings.cpp, 'w') as f: f.write(...)
WriteOutput ==
    /\ pc = "rendered"
    /\ output_file' = {output}
    /\ pc' = "written"
    /\ UNCHANGED <<ent, stack, child, in_header, includes, types_can_be_registered,
                   stl_containers, flattens, output, current_style_sheet, style_call,
                   raised>>

(***************************************************************************)
(* Specification of a generation run over declaration trees                *)
(***************************************************************************)
\* main() is entered: nothing is built, nothing has been raised
MainEntered ==
    /\ ent = <<ProjectMetaInit>>
    /\ stack = <<[id |-> Root, mode |-> "root"]>>
    /\ child = NoCursor
    /\ pc = "process"
    /\ in_header = FALSE
    /\ includes = <<>>
    /\ types_can_be_registered = <<>>
    /\ stl_containers = <<>>
    /\ flattens = 0
    /\ output = <<>>
    /\ current_style_sheet = DefaultStyleSheet
    /\ style_call = [style_name |-> "embind", raised |-> ""]
    /\ raised = <<>>

\* a run into a destination directory that holds no bindings file yet
Init == MainEntered /\ output_file = {}

NameA == <<"a">>
NameNa == <<"N", "_", "a">>
NameM == <<"m">>
Names == {NameA, NameNa}

TConstInt == MkType(<<>>, IntT, TRUE, "")
TIntRef == MkType(<<>>, IntT, FALSE, "&")
TPubBase == MkType(<<>>, <<"PubBase">>, FALSE, "")
TPrivBase == MkType(<<>>, <<"PrivBase">>, FALSE, "")

\* children handed out at namespace (and project) scope
NamespaceCursors ==
    {Decl("NAMESPACE", n, "INVALID") : n \in Names}
    \cup {Decl("CLASS_DECL", NameA, "INVALID"), Decl("STRUCT_DECL", NameNa, "INVALID"),
          Decl("ENUM_DECL", NameA, "INVALID")}
    \cup {TypedDecl("VAR_DECL", NameNa, "INVALID", "NONE", TConstInt)}

\* children handed out at class scope
ClassCursors ==
    {Decl("CLASS_DECL", NameA, "PUBLIC"), Decl("STRUCT_DECL", NameNa, "PUBLIC"),
     Decl("ENUM_DECL", NameA, "PUBLIC")}
    \cup {TypedDecl("FIELD_DECL", NameNa, "PUBLIC", "NONE", TInt),
          TypedDecl("FIELD_DECL", NameA, "PUBLIC", "NONE", TVoidPtr)}

EnumCursors == {Decl("ENUM_CONSTANT_DECL", NameA, "INVALID")}

CanCreate == Len(ent) <= MaxEnt

Next ==
    \/ BeginHeader
    \/ \E c \in NamespaceCursors : CanCreate /\ ScanNamespace(c)
    \/ \E c \in NamespaceCursors : CanCreate /\ ScanVarDecl(c)
    \/ \E c \in NamespaceCursors : CanCreate /\ ScanCompositeDecl(c)
    \/ \E c \in ClassCursors : CanCreate /\ AddPlainMember(c)
    \/ \E c \in ClassCursors : CanCreate /\ AddNestedDecl(c)
    \/ \E c \in EnumCursors : CanCreate /\ AddEnumValue(c)
    \/ EndChildren
    \/ EndHeader
    \/ FinishProcess
    \/ Flatten
    \/ Render

Spec == Init /\ [][Next]_vars

(***************************************************************************)
(* Specification of runs over the children of one class                    *)
(***************************************************************************)
\* base specifiers are the first children of a class cursor
BaseCursors ==
    {TypedDecl("CXX_BASE_SPECIFIER", <<>>, "PUBLIC", "NONE", TPubBase),
     TypedDecl("CXX_BASE_SPECIFIER", <<>>, "PRIVATE", "NONE", TPrivBase)}

FirstChild == child = ent[Top].cursor /\ Len(ent) = Top

MemberCursors ==
    {FnDecl("CONSTRUCTOR", NameA, a, "NONE", TVoid, <<>>) : a \in {"PUBLIC", "PRIVATE"}}
    \cup {TypedDecl("FIELD_DECL", NameNa, a, "NONE", TInt) : a \in {"PUBLIC", "PRIVATE"}}
    \cup {Decl("CLASS_DECL", NameA, a) : a \in {"PUBLIC", "PROTECTED"}}
    \cup {FnDecl("CXX_METHOD", NameM, "PUBLIC", "NONE", TVoid, <<>>),
          TypedDecl("VAR_DECL", NameM, "PUBLIC", "STATIC", TInt),
          TypedDecl("TYPEDEF_DECL", NameM, "PUBLIC", "NONE", TInt),
          Decl("ENUM_DECL", NameA, "PUBLIC"),
          Decl("STRUCT_DECL", NameNa, "PUBLIC"),
          Decl("DESTRUCTOR", NameA, "PUBLIC")}

MaxMembers == 2    \* entities created inside the outermost class

CanCreateMember == Len(ent) <= MaxMembers + 1

NextClass ==
    \/ BeginHeader
    \/ \E c \in {Decl("CLASS_DECL", NameA, "INVALID")} : Len(ent) = 1 /\ ScanCompositeDecl(c)
    \/ \E c \in MemberCursors : AddFiltered(c)
    \/ \E c \in BaseCursors : FirstChild /\ AddFiltered(c)
    \/ \E c \in BaseCursors : FirstChild /\ AddBaseSpecifier(c)
    \/ \E c \in MemberCursors : CanCreateMember /\ AddConstructor(c)
    \/ \E c \in MemberCursors : CanCreateMember /\ AddMethod(c)
    \/ \E c \in MemberCursors : CanCreateMember /\ AddPlainMember(c)
    \/ \E c \in MemberCursors : CanCreateMember /\ AddNestedDecl(c)
    \/ \E c \in MemberCursors : AddIgnoredItem(c)
    \/ \E c \in EnumCursors : CanCreateMember /\ AddEnumValue(c)
    \/ EndChildren
    \/ EndHeader
    \/ FinishProcess
    \/ Flatten
    \/ Render

SpecClass == Init /\ [][NextClass]_vars

(***************************************************************************)
(* Specification of runs over callables (overload grouping)                *)
(***************************************************************************)
CtorArgs == {<<>>, <<TInt>>, <<TVoidPtr>>, <<TIntRef>>}

FnNamespaceCursors ==
    {Decl("CLASS_DECL", NameA, "INVALID")}
    \cup {FnDecl("FUNCTION_DECL", NameM, "INVALID", "NONE", TVoid, a) : a \in {<<>>, <<TIntRef>>}}

FnClassCursors ==
    {FnDecl("CONSTRUCTOR", NameA, "PUBLIC", "NONE", TVoid, a) : a \in CtorArgs}
    \cup {FnDecl("CXX_METHOD", NameM, "PUBLIC", "NONE", TVoid, a) : a \in {<<>>, <<TInt>>}}
    \cup {FnDecl("CXX_METHOD", NameNa, "PUBLIC", "STATIC", TVoidPtr, <<>>),
          FnDecl("CXX_METHOD", NameM, "PRIVATE", "NONE", TVoid, <<>>),
          FnDecl("CONSTRUCTOR", NameA, "PRIVATE", "NONE", TVoid, <<>>)}

NumFns == Cardinality({e \in 1..Len(ent) : IsInstance(ent[e].cls, "FunctionMeta")})
CanCreateFn == NumFns < MaxFns
NoClassYet == \A e \in 1..Len(ent) : ~IsClassLike(ent, e)

NextFn ==
    \/ BeginHeader
    \/ \E c \in FnNamespaceCursors : NoClassYet /\ ScanCompositeDecl(c)
    \/ \E c \in FnNamespaceCursors : CanCreateFn /\ ScanFunctionDecl(c)
    \/ \E c \in FnClassCursors : AddFiltered(c)
    \/ \E c \in FnClassCursors : CanCreateFn /\ AddConstructor(c)
    \/ \E c \in FnClassCursors : CanCreateFn /\ AddMethod(c)
    \/ EndChildren
    \/ EndHeader
    \/ FinishProcess
    \/ Flatten
    \/ Render

SpecFn == Init /\ [][NextFn]_vars

(***************************************************************************)
(* Specification of runs over typed declarations (container usage)         *)
(***************************************************************************)
TVecInt == MkType(<<>>, VecInt, FALSE, "")
TVecIntRef == MkType(<<>>, VecInt, FALSE, "&")
TConstVecIntRef == MkType(<<>>, VecInt, TRUE, "&")
TVecDouble == MkType(<<>>, VecDouble, FALSE, "")
TIntList == MkType(<<"IntList">>, VecInt, FALSE, "")

StlNamespaceCursors ==
    {FnDecl("FUNCTION_DECL", NameM, "INVALID", "NONE", TVoid, <<t>>) :
        t \in {TVecInt, TVecIntRef, TConstVecIntRef, TVecDouble, TInt}}
    \cup {FnDecl("FUNCTION_DECL", NameM, "INVALID", "NONE", TVecInt, <<TVecInt>>),
          TypedDecl("TYPEDEF_DECL", <<"IntList">>, "INVALID", "NONE", TIntList),
          Decl("STRUCT_DECL", NameA, "INVALID")}

StlClassCursors ==
    {TypedDecl("FIELD_DECL", NameA, "PUBLIC", "NONE", TVecInt),
     TypedDecl("FIELD_DECL", NameNa, "PUBLIC", "NONE", TIntList),
     TypedDecl("VAR_DECL", NameM, "PUBLIC", "STATIC", TVecDouble),
     TypedDecl("TYPEDEF_DECL", <<"IntList">>, "PUBLIC", "NONE", TIntList)}

NumUses ==
    Cardinality({e \in 1..Len(ent) : ent[e].cls \notin {"ProjectMeta", "StructMeta"}})
CanCreateUse == NumUses < MaxUses

NextStl ==
    \/ BeginHeader
    \/ \E c \in StlNamespaceCursors : NoClassYet /\ ScanCompositeDecl(c)
    \/ \E c \in StlNamespaceCursors : CanCreateUse /\ ScanFunctionDecl(c)
    \/ \E c \in StlNamespaceCursors : CanCreateUse /\ ScanTypedefDecl(c)
    \/ \E c \in StlClassCursors : CanCreateUse /\ AddPlainMember(c)
    \/ EndChildren
    \/ EndHeader
    \/ FinishProcess
    \/ Flatten
    \/ Render

SpecStl == Init /\ [][NextStl]_vars

(***************************************************************************)
(* Specification of runs over callables and fields of various types        *)
(***************************************************************************)
\* typedef void *Handle;
THandle == MkType(<<"Handle">>, VoidT, FALSE, "*")
TConstIntRef == MkType(<<>>, IntT, TRUE, "&")

SigArgs == {<<TInt>>, <<TVoidPtr>>, <<THandle>>, <<TIntRef>>, <<TConstIntRef>>}

SigNamespaceCursors ==
    {Decl("CLASS_DECL", NameA, "INVALID")}
    \cup {FnDecl("FUNCTION_DECL", NameM, "INVALID", "NONE", TVoid, a) : a \in SigArgs}
    \cup {FnDecl("FUNCTION_DECL", NameM, "INVALID", "NONE", r, <<>>) :
             r \in {TVoidPtr, THandle}}

SigClassCursors ==
    {FnDecl("CXX_METHOD", NameM, "PUBLIC", "NONE", TVoid, a) :
        a \in {<<TIntRef>>, <<TConstIntRef>>}}
    \cup {FnDecl("CXX_METHOD", NameM, "PUBLIC", "STATIC", THandle, <<>>)}
    \cup {TypedDecl("FIELD_DECL", NameA, "PUBLIC", "NONE", t) :
             t \in {TInt, TVoidPtr, THandle}}

NextSig ==
    \/ BeginHeader
    \/ \E c \in SigNamespaceCursors : NoClassYet /\ CanCreate /\ ScanCompositeDecl(c)
    \/ \E c \in SigNamespaceCursors : CanCreate /\ ScanFunctionDecl(c)
    \/ \E c \in SigClassCursors : CanCreate /\ AddMethod(c)
    \/ \E c \in SigClassCursors : CanCreate /\ AddPlainMember(c)
    \/ EndChildren
    \/ EndHeader
    \/ FinishProcess
    \/ Flatten
    \/ Render

SpecSig == Init /\ [][NextSig]_vars

(***************************************************************************)
(* Specification of runs under a selected style configuration              *)
(***************************************************************************)
StyleNames == DOMAIN style_sheets \cup {"unknown"}

StyleNamespaceCursors ==
    {Decl("CLASS_DECL", NameA, "INVALID"),
     FnDecl("FUNCTION_DECL", NameM, "INVALID", "NONE", TVoid, <<>>)}

StyleClassCursors ==
    {FnDecl("CONSTRUCTOR", NameA, "PUBLIC", "NONE", TVoid, <<>>),
     FnDecl("CXX_METHOD", NameM, "PUBLIC", "NONE", TVoid, <<>>),
     TypedDecl("FIELD_DECL", NameNa, "PUBLIC", "NONE", TInt)}

NextStyle ==
    \/ \E n \in StyleNames : SelectStyleSheet(n)
    \/ BeginHeader
    \/ \E c \in StyleNamespaceCursors : NoClassYet /\ CanCreate /\ ScanCompositeDecl(c)
    \/ \E c \in StyleNamespaceCursors : CanCreate /\ ScanFunctionDecl(c)
    \/ \E c \in StyleClassCursors : CanCreate /\ AddConstructor(c)
    \/ \E c \in StyleClassCursors : CanCreate /\ AddMethod(c)
    \/ \E c \in StyleClassCursors : CanCreate /\ AddPlainMember(c)
    \/ EndChildren
    \/ EndHeader
    \/ FinishProcess
    \/ Flatten
    \/ Render

SpecStyle == Init /\ [][NextStyle]_vars

(***************************************************************************)
(* Specification of runs over the header                                   *)
(*   namespace app { class Point { public: Point(); double x;              *)
(*                   double add(double); int add(int, int); }; }           *)
(* with its members declared in any order                                  *)
(***************************************************************************)
NameApp == <<"a", "p", "p">>
NamePoint == <<"P", "o", "i", "n", "t">>
NameX == <<"x">>
NameAdd == <<"a", "d", "d">>
TDouble == MkType(<<>>, <<"double">>, FALSE, "")

PointNamespaceCursors ==
    {Decl("NAMESPACE", NameApp, "INVALID"), Decl("CLASS_DECL", NamePoint, "INVALID")}

PointMemberCursors ==
    {FnDecl("CONSTRUCTOR", NamePoint, "PUBLIC", "NONE", TVoid, <<>>),
     TypedDecl("FIELD_DECL", NameX, "PUBLIC", "NONE", TDouble),
     FnDecl("CXX_METHOD", NameAdd, "PUBLIC", "NONE", TDouble, <<TDouble>>),
     FnDecl("CXX_METHOD", NameAdd, "PUBLIC", "NONE", TInt, <<TInt, TInt>>)}

\* a declaration occurs once in the header
NotYet(c) == \A e \in 1..Len(ent) : ent[e].cursor # c

NextPoint ==
    \/ BeginHeader
    \/ \E c \in PointNamespaceCursors : NotYet(c) /\ ScanNamespace(c)
    \/ \E c \in PointNamespaceCursors : NotYet(c) /\ ScanCompositeDecl(c)
    \/ \E c \in PointMemberCursors : NotYet(c) /\ AddConstructor(c)
    \/ \E c \in PointMemberCursors : NotYet(c) /\ AddMethod(c)
    \/ \E c \in PointMemberCursors : NotYet(c) /\ AddPlainMember(c)
    \/ EndChildren
    \/ EndHeader
    \/ FinishProcess
    \/ Flatten
    \/ Render

SpecPoint == Init /\ [][NextPoint]_vars

(***************************************************************************)
(* Specification of whole runs of main(): the same header, a destination   *)
(* directory that may hold a bindings file of an earlier run, headers that *)
(* may fail to load and a template that may fail to render                 *)
(***************************************************************************)
StaleContent == <<[spaces |-> 0, text |-> <<"// earlier run">>]>>

InitRun == MainEntered /\ output_file \in {{}, {StaleContent}}

NextRun ==
    \/ BeginHeader
    \/ ParseFailure
    \/ \E c \in PointNamespaceCursors : NotYet(c) /\ ScanNamespace(c)
    \/ \E c \in PointNamespaceCursors : NotYet(c) /\ ScanCompositeDecl(c)
    \/ \E c \in PointMemberCursors : NotYet(c) /\ AddConstructor(c)
    \/ \E c \in PointMemberCursors : NotYet(c) /\ AddMethod(c)
    \/ \E c \in PointMemberCursors : NotYet(c) /\ AddPlainMember(c)
    \/ EndChildren
    \/ EndHeader
    \/ FinishProcess
    \/ Flatten
    \/ Render
    \/ RenderRaises
    \/ WriteOutput

SpecRun == InitRun /\ [][NextRun]_vars

(***************************************************************************)
(* The earlier generator (generate_embind.py), which flattens every class  *)
(* into the project's own definations.  Its builder dispatches class,      *)
(* struct, enum and namespace declarations as the scan actions above do;   *)
(* its definations are dicts keyed by name, kept here in insertion order,  *)
(* so a scope is only handed names it has not been handed before.          *)
(***************************************************************************)
\* root.definations.get(name) is not None
LegacyDefined(E, root, name) ==
    \E d \in Range(E[root].definations) : E[d].ast_name = name

\* ValueError(f'Class name conflict: {name}')
LegacyConflict(name) == <<"Class name conflict: ">> \o name

\* ClassInfo.flatten_structure, the loop over self.enums: the first enum
\* whose name root already holds, 0 when there is none
LegacyEnumConflict(E, c, root) ==
    LET hits == SelectSeq(E[c].enums, LAMBDA e : LegacyDefined(E, root, E[e].ast_name))
    IN IF hits = <<>> THEN 0 ELSE Head(hits)

\* ClassInfo.flatten_structure; R is [E, raised], and a raised exception
\* leaves everything as it was at the raise
RECURSIVE LegacyClassFlatten(_, _, _)
RECURSIVE LegacyClassFlattenEach(_, _, _)
LegacyClassFlattenEach(R, list, root) ==
    IF list = <<>> \/ R.raised # <<>> THEN R
    ELSE LegacyClassFlattenEach(LegacyClassFlatten(R, Head(list), root), Tail(list), root)

LegacyClassFlatten(R, c, root) ==
    IF R.raised # <<>> THEN R
    ELSE IF LegacyDefined(R.E, root, R.E[c].ast_name)
    THEN [R EXCEPT !.raised = LegacyConflict(R.E[c].ast_name)]
    ELSE LET E1 == [R.E EXCEPT ![root].definations = Append(@, c)]
             hit == LegacyEnumConflict(E1, c, root)
         IN IF hit # 0
            THEN [E |-> E1, raised |-> LegacyConflict(E1[hit].ast_name)]
            ELSE LET E2 == [E1 EXCEPT ![c].enums = <<>>]
                     R3 == LegacyClassFlattenEach([E |-> E2, raised |-> <<>>],
                                                  E2[c].classes, root)
                 IN IF R3.raised # <<>> THEN R3
                    ELSE LET E3 == [R3.E EXCEPT ![c].classes = <<>>]
                             R4 == LegacyClassFlattenEach([E |-> E3, raised |-> <<>>],
                                                          E3[c].structs, root)
                         IN IF R4.raised # <<>> THEN R4
                            ELSE [R4 EXCEPT !.E[c].structs = <<>>]

\* NamespaceInfo.flatten_structure
RECURSIVE LegacyNamespaceFlatten(_, _, _)
RECURSIVE LegacyNamespaceFlattenEach(_, _, _)
LegacyNamespaceFlattenEach(R, list, root) ==
    IF list = <<>> \/ R.raised # <<>> THEN R
    ELSE LegacyNamespaceFlattenEach(LegacyNamespaceFlatten(R, Head(list), root),
                                    Tail(list), root)

LegacyNamespaceFlatten(R, ns, root) ==
    LET removed_classes == SelectSeq(R.E[ns].definations, LAMBDA d : IsClassLike(R.E, d))
        R1 == LegacyClassFlattenEach(R, removed_classes, root)
    IN IF R1.raised # <<>> THEN R1
       ELSE LegacyNamespaceFlattenEach(
                [R1 EXCEPT !.E[ns].definations = RemoveAll(@, removed_classes)],
                R1.E[ns].namespaces, root)

\* ProjectInfo.flatten_structure
LegacyProjectFlatten(E, root) ==
    LegacyNamespaceFlattenEach([E |-> E, raised |-> <<>>], E[root].namespaces, root)

\* main(): project_info.flatten_structure(project_info), once the
\* constructor has scanned every header
LegacyFlattenStructure ==
    /\ pc = "process"
    /\ ~in_header
    /\ LET R == LegacyProjectFlatten(ent, Root)
       IN /\ ent' = R.E
          /\ IF R.raised # <<>>
             THEN Abort(R.raised) /\ UNCHANGED flattens
             ELSE /\ pc' = "flattened"
                  /\ flattens' = flattens + 1
                  /\ UNCHANGED <<raised, output_file>>
    /\ UNCHANGED <<stack, child, in_header, includes, types_can_be_registered,
                   stl_containers, output, current_style_sheet, style_call>>

\* BindingInfo.get_full_name
LegacyFullName(E, e) ==
    IF E[e].parent = Root THEN E[e].ast_name
    ELSE E[E[e].parent].ast_name \o <<"::">> \o E[e].ast_name

LegacyNamespaceCursors ==
    {Decl("NAMESPACE", NameNa, "INVALID"), Decl("CLASS_DECL", NameA, "INVALID"),
     Decl("STRUCT_DECL", NameM, "INVALID")}

LegacyClassCursors ==
    {Decl("CLASS_DECL", NameM, "PUBLIC"), Decl("ENUM_DECL", NameM, "PUBLIC"),
     Decl("ENUM_DECL", NameNa, "PUBLIC")}

\* the scope being scanned has not been handed this name, and a member is
\* not named as its class
LegacyFresh(c) ==
    /\ \A e \in 2..Len(ent) : ent[e].parent = Top => ent[e].ast_name # c.spelling
    /\ IsClassLike(ent, Top) => ent[Top].ast_name # c.spelling

NextLegacy ==
    \/ BeginHeader
    \/ \E c \in LegacyNamespaceCursors : CanCreate /\ ScanNamespace(c)
    \/ \E c \in LegacyNamespaceCursors : CanCreate /\ LegacyFresh(c) /\ ScanCompositeDecl(c)
    \/ \E c \in LegacyClassCursors : CanCreate /\ LegacyFresh(c) /\ AddNestedDecl(c)
    \/ EndChildren
    \/ EndHeader
    \/ LegacyFlattenStructure

SpecLegacy == Init /\ [][NextLegacy]_vars

(***************************************************************************)
(* Specification of scans of headers whose namespace-level children are of *)
(* every kind scan_structure tells apart, some of them forward             *)
(* declarations or children of an included file                            *)
(***************************************************************************)
TAliasInt == MkType(<<"I">>, IntT, FALSE, "")

ScanCursors ==
    {Decl("NAMESPACE", NameNa, "INVALID"),
     TypedDecl("VAR_DECL", NameA, "INVALID", "NONE", TConstInt),
     TypedDecl("VAR_DECL", NameM, "INVALID", "NONE", TInt),
     FnDecl("FUNCTION_DECL", NameM, "INVALID", "NONE", TInt, <<>>),
     Decl("CLASS_DECL", NameA, "INVALID"),
     Decl("STRUCT_DECL", NameA, "INVALID"),
     Decl("ENUM_DECL", NameM, "INVALID"),
     TypedDecl("TYPEDEF_DECL", NameA, "INVALID", "NONE", TAliasInt),
     Decl("FUNCTION_TEMPLATE", NameM, "INVALID"),
     Decl("LINKAGE_SPEC", <<>>, "INVALID"),
     MkCursor("FUNCTION_DECL", NameA, "INVALID", "NONE", FnType(TInt, <<>>), TInt, <<>>,
              FALSE, TRUE),
     MkCursor("CLASS_DECL", NameM, "INVALID", "NONE", TNone, TNone, <<>>, TRUE, FALSE)}

NextScan ==
    \/ BeginHeader
    \/ \E c \in ScanCursors : CanCreate /\ ScanFiltered(c)
    \/ \E c \in ScanCursors : CanCreate /\ ScanNamespace(c)
    \/ \E c \in ScanCursors : CanCreate /\ ScanVarDecl(c)
    \/ \E c \in ScanCursors : CanCreate /\ ScanFunctionDecl(c)
    \/ \E c \in ScanCursors : CanCreate /\ ScanCompositeDecl(c)
    \/ \E c \in ScanCursors : CanCreate /\ ScanTypedefDecl(c)
    \/ \E c \in ScanCursors : CanCreate /\ ScanIgnoredItem(c)
    \/ EndChildren
    \/ EndHeader

SpecScan == Init /\ [][NextScan]_vars

(***************************************************************************)
(* Output-flavor helper layer (style_sheets/shared_helpers.py)             *)
(***************************************************************************)
ParsePart(part) ==
    IF StartsWith(part, <<"N", "_">>) THEN <<"namespace", SubSeq(part, 3, Len(part))>>
    ELSE IF StartsWith(part, <<"C", "_">>) THEN <<"class", SubSeq(part, 3, Len(part))>>
    ELSE IF StartsWith(part, <<"S", "_">>) THEN <<"struct", SubSeq(part, 3, Len(part))>>
    ELSE IF StartsWith(part, <<"E", "_">>) THEN <<"enum", SubSeq(part, 3, Len(part))>>
    ELSE IF StartsWith(part, <<"S", "T", "L", "_", "_">>) THEN <<"stl", part>>
    ELSE <<"plain", part>>

parse_mangled_name(mangled_name) ==
    LET parts == Split(mangled_name, <<"_", "_">>)
    IN [i \in 1..Len(parts) |-> ParsePart(parts[i])]

\* variant: nested namespaces are not visited
collect_from_namespace_flat(E, namespace) ==
    SelectSeq(E[namespace].definations, LAMBDA d : E[d].cls = "ConstantValueMeta")

\* collect_all_constants: the inner collect_from_namespace
RECURSIVE collect_from_namespace(_, _)
collect_from_namespace(E, namespace) ==
    SelectSeq(E[namespace].definations, LAMBDA d : E[d].cls = "ConstantValueMeta")
    \o Concat([i \in 1..Len(E[namespace].namespaces) |->
                  collect_from_namespace(E, E[namespace].namespaces[i])])

collect_all_constants(E, namespaces) ==
    Concat([i \in 1..Len(namespaces) |-> collect_from_namespace(E, namespaces[i])])

\* The nested dict built by build_hierarchical_structure_base is a function
\* from paths (the keys from the top dict down through 'children') to nodes;
\* mangled_name and meta are sets: {} for None.
IsUnder(q, path) == Len(q) >= Len(path) /\ SubSeq(q, 1, Len(path)) = path

\* current[name] = {..., 'children': {}}: the key is (re)bound to a fresh node
SetNode(structure, path, node) ==
    [q \in {r \in DOMAIN structure : ~IsUnder(r, path)} \cup {path} |->
        IF q = path THEN node ELSE structure[q]]

\* the loop over hierarchy[1:-1]: missing levels get a placeholder node
RECURSIVE WalkLevels(_, _, _)
WalkLevels(structure, path, levels) ==
    IF levels = <<>> THEN [structure |-> structure, path |-> path]
    ELSE LET next == Append(path, Head(levels)[2])
             st == IF next \in DOMAIN structure THEN structure
                   ELSE SetNode(structure, next,
                                [mangled_name |-> {}, type |-> Head(levels)[1], meta |-> {}])
         IN WalkLevels(st, next, Tail(levels))

\* one iteration of the loop over namespace.definations
AddToStructure(sheet, E, namespace, structure, defination) ==
    LET hierarchy == parse_mangled_name(get_mangled_name(sheet, E, defination))
        node == [mangled_name |-> {get_mangled_name(sheet, E, defination)},
                 type |-> E[defination].cls, meta |-> {defination}]
    IN IF E[defination].cls = "ConstantValueMeta" THEN structure
       ELSE IF Len(hierarchy) > 1 /\ hierarchy[1][2] # get_ast_name(E, namespace)
            THEN structure
       ELSE IF Len(hierarchy) <= 1
            THEN SetNode(structure, <<get_ast_name(E, defination)>>, node)
       ELSE LET w == WalkLevels(structure, <<>>, SubSeq(hierarchy, 2, Len(hierarchy) - 1))
            IN SetNode(w.structure, Append(w.path, get_ast_name(E, defination)), node)

RECURSIVE BuildStructure(_, _, _, _, _)
BuildStructure(sheet, E, namespace, structure, definations) ==
    IF definations = <<>> THEN structure
    ELSE BuildStructure(sheet, E, namespace,
                        AddToStructure(sheet, E, namespace, structure, Head(definations)),
                        Tail(definations))

\* build_hierarchical_structure_base(namespace, exclude_constants=True)
build_hierarchical_structure_base(sheet, E, namespace) ==
    BuildStructure(sheet, E, namespace, [q \in {} |-> {}], E[namespace].definations)

(***************************************************************************)
(* Properties                                                              *)
(***************************************************************************)
Entities == 1..Len(ent)
Declared == {e \in Entities : ent[e].cls \notin {"ProjectMeta", "STLContainerMeta"}}
Sheet == current_style_sheet

\* a step taken once the tree is built keeps every entity's mangled name
MangledNamesKept ==
    pc \in {"constructed", "flattened"} =>
        \A e \in Entities :
            get_mangled_name(current_style_sheet', ent', e) = get_mangled_name(Sheet, ent, e)

\* C1: every entity's mangled name is the same before and after each
\* flatten call (the first and any further one).
C1_MangledNameStable == [][MangledNamesKept]_vars

\* a class nested in a class has been lifted into a namespace's member list
C1_Witness ==
    /\ flattens >= 1
    /\ \E c \in Entities, ns \in Entities :
          /\ IsClassLike(ent, c) /\ IsClassLike(ent, ent[c].parent)
          /\ IsNamespaceLike(ent, ns)
          /\ c \in Range(ent[ns].definations)

KindTag(cls) ==
    CASE cls = "NamespaceMeta" -> "namespace"
      [] cls = "ClassMeta" -> "class"
      [] cls = "StructMeta" -> "struct"
      [] cls = "EnumMeta" -> "enum"
      [] OTHER -> "plain"

RECURSIVE AncestorChain(_, _)
AncestorChain(E, e) ==
    IF E[e].cls = "ProjectMeta" THEN <<>>
    ELSE Append(AncestorChain(E, E[e].parent), <<KindTag(E[e].cls), E[e].ast_name>>)

\* C2: parsing an entity's mangled name yields one (kind, name) segment per
\* ancestor from the first entity below the root down to the entity.
C2_RoundTrip ==
    \A e \in Declared :
        parse_mangled_name(get_mangled_name(Sheet, ent, e)) = AncestorChain(ent, e)

KindPrefix(cls) ==
    CASE cls = "NamespaceMeta" -> <<"N", "_">>
      [] cls = "ClassMeta" -> <<"C", "_">>
      [] cls = "StructMeta" -> <<"S", "_">>
      [] cls = "EnumMeta" -> <<"E", "_">>
      [] OTHER -> <<>>

\* C3: under the default style the mangled name is the parent's mangled
\* name, '__' unless that is empty, the kind prefix and the AST name; the
\* root's mangled name is empty.
C3_MangledNameForm ==
    /\ get_mangled_name(Sheet, ent, Root) = <<>>
    /\ \A e \in Declared :
          LET pm == get_mangled_name(Sheet, ent, ent[e].parent)
          IN get_mangled_name(Sheet, ent, e) =
                pm \o (IF pm = <<>> THEN <<>> ELSE <<"_", "_">>)
                \o KindPrefix(ent[e].cls) \o ent[e].ast_name

\* a struct below a namespace, next to a top-level entity
C3_Witness ==
    \E e \in Declared :
        /\ ent[e].cls = "StructMeta"
        /\ ent[e].parent # Root
        /\ ent[ent[e].parent].parent = Root

\* every homonymic group of every class
Groups ==
    UNION {{ent[c].constructors[i].homonymic_functions : i \in 1..Len(ent[c].constructors)}
           \cup {ent[c].methods[i].homonymic_functions : i \in 1..Len(ent[c].methods)} :
           c \in {x \in Entities : IsClassLike(ent, x)}}

\* C4: a group of one member has that member not overloaded; a group of
\* two or more members has every member overloaded.
C4_OverloadFlags ==
    \A g \in Groups :
        /\ Len(g) = 1 => ~ent[g[1]].is_overloaded
        /\ Len(g) >= 2 => \A i \in 1..Len(g) : ent[g[i]].is_overloaded

C4_Witness == \E g \in Groups : Len(g) = 3

OverloadReason ==
    "overloaded function with same amount of paramters(embind does not support): "

\* the step that adds a constructor: it is marked ignored with the overload
\* reason if an earlier member of its group has the same parameter count,
\* it keeps the flag its construction gave it otherwise, and no earlier
\* entity's ignore flag or reason changes
ConstructorAdded ==
    (Len(ent') = Len(ent) + 1 /\ ent'[Len(ent')].cls = "ConstructorMeta") =>
         (LET m == Len(ent')
              g == GroupOf(ent[ent'[m].parent].constructors, ent'[m].ast_name)
              clash == \E i \in 1..Len(g) : ent[g[i]].args_count = ent'[m].args_count
          IN /\ clash => /\ ent'[m].should_be_ignored
                         /\ OverloadReason \in Range(ent'[m].ignored_reason)
             /\ ~clash => /\ ent'[m].should_be_ignored =
                                (ent'[m].has_any_void_pointer
                                 \/ ent'[m].has_any_nonconst_reference)
                          /\ OverloadReason \notin Range(ent'[m].ignored_reason)
             /\ \A e \in Entities :
                   /\ ent'[e].should_be_ignored = ent[e].should_be_ignored
                   /\ ent'[e].ignored_reason = ent[e].ignored_reason)

\* C5: when a constructor is added to a group, an arity match with an
\* earlier member marks the new constructor ignored (overload reason) and
\* nothing else; without a match the addition marks nothing.
C5_ArityConflict == [][ConstructorAdded]_vars

\* a later constructor suppressed by an earlier one of the same arity
C5_Witness ==
    \E g \in Groups :
        \E i \in 1..Len(g), j \in 1..Len(g) :
            /\ i < j
            /\ ent[g[j]].cls = "ConstructorMeta"
            /\ ent[g[i]].args_count = ent[g[j]].args_count
            /\ ent[g[j]].should_be_ignored
            /\ ~ent[g[i]].should_be_ignored

IsAllowListed(t) ==
    \E i \in 1..Len(stl_containers_can_be_registered) :
        stl_containers_can_be_registered[i] \in Range(TypeSpelling(t))

\* the template instantiations used by the types the collector scans
UsedInstantiations ==
    {t.base : t \in {x \in UNION {Range(get_all_relavant_types(ent, e)) : e \in Declared} :
                        IsAllowListed(x)}}

\* C6: one container-instance entity per distinct allow-listed template
\* instantiation used in the tree, whatever the number and form of uses.
C6_OnePerInstantiation ==
    pc # "process" => Len(stl_containers) = Cardinality(UsedInstantiations)

\* the members held by the collections of a class
ClassMembers(c) ==
    Range(FunctionIterator(ent[c].constructors)) \cup Range(FunctionIterator(ent[c].methods))
    \cup Range(ent[c].fields) \cup Range(ent[c].enums) \cup Range(ent[c].structs)
    \cup Range(ent[c].classes) \cup Range(ent[c].static_values) \cup Range(ent[c].type_defs)

\* C7: every member of a class's collections, every entity built below a
\* class and every recorded base class comes from a PUBLIC child.
C7_PublicOnly ==
    /\ \A c \in {x \in Entities : IsClassLike(ent, x)} :
          /\ \A m \in ClassMembers(c) : ent[m].cursor.access_specifier = "PUBLIC"
          /\ ent[c].base_class_name # TypeSpelling(TPrivBase)
          /\ ent[c].is_derived => ent[c].base_class_name = TypeSpelling(TPubBase)
    /\ \A e \in Declared :
          IsClassLike(ent, ent[e].parent) => ent[e].cursor.access_specifier = "PUBLIC"

\* a non-public child was visited in a class that has public members
C7_Witness ==
    /\ child.access_specifier \in {"PRIVATE", "PROTECTED"}
    /\ \E c \in Entities : IsClassLike(ent, c) /\ ClassMembers(c) # {}

OnStack == {stack[i].id : i \in 1..Len(stack)}

DefinableClasses ==
    {"ConstantValueMeta", "FunctionMeta", "ClassMeta", "StructMeta", "EnumMeta"}

\* C8: during tree building there is one namespace entity per name and
\* scope, and a namespace's member list holds exactly the completed members
\* declared in it, in the order they were visited.
C8_NamespaceMerge ==
    pc = "process" =>
        /\ \A i \in Entities, j \in Entities :
              (/\ ent[i].cls = "NamespaceMeta" /\ ent[j].cls = "NamespaceMeta"
               /\ ent[i].parent = ent[j].parent /\ ent[i].ast_name = ent[j].ast_name)
              => i = j
        /\ \A p \in {x \in Entities : IsNamespaceLike(ent, x)} :
              LET defs == ent[p].definations
              IN /\ Range(defs) = {e \in Entities \ OnStack :
                                      ent[e].parent = p /\ ent[e].cls \in DefinableClasses}
                 /\ \A i \in 1..Len(defs), j \in 1..Len(defs) : i < j => defs[i] < defs[j]

\* a namespace re-entered from a second header, holding members of both
C8_Witness ==
    /\ pc = "process"
    /\ Len(includes) >= 1
    /\ stack[Len(stack)].mode = "merge"
    /\ \E i \in 1..Len(ent[Top].definations) :
          \A k \in 1..Len(stack) : ent[Top].definations[i] > stack[k].id
    /\ Len(ent[Top].definations) >= 2

RECURSIVE NearestNamespace(_, _)
NearestNamespace(E, e) ==
    IF IsNamespaceLike(E, E[e].parent) THEN E[e].parent
    ELSE NearestNamespace(E, E[e].parent)

\* C9: after a flatten call every class/struct, and every enum nested in
\* one, is a direct member of its nearest enclosing namespace, and no class
\* keeps nested classes, structs or enums.
C9_AllFlattened ==
    flattens >= 1 =>
        \A e \in Declared :
            /\ IsClassLike(ent, e) =>
                  /\ e \in Range(ent[NearestNamespace(ent, e)].definations)
                  /\ ent[e].classes = <<>> /\ ent[e].structs = <<>> /\ ent[e].enums = <<>>
            /\ (ent[e].cls = "EnumMeta" /\ IsClassLike(ent, ent[e].parent)) =>
                  e \in Range(ent[NearestNamespace(ent, e)].definations)

\* C10: in the rendered output every ignored entity has a non-empty reason
\* and appears as a reason line followed by its normal fragment wrapped in
\* the comment template.
C10_IgnoredStillRendered ==
    pc = "rendered" =>
        \A e \in Entities :
            ent[e].should_be_ignored =>
                /\ ent[e].ignored_reason # <<>>
                /\ \E i \in 1..(Len(output) - 1) :
                      /\ output[i].text = <<"// ", "Ignored due to: ">> \o ent[e].ignored_reason
                      /\ output[i + 1].text = <<"/*">> \o PlainContent(Sheet, ent, e) \o <<"*/">>
                      /\ output[i].spaces = output[i + 1].spaces

\* the output holds an entity ignored for an arity clash and one ignored
\* for an unsupported construct
C10_Witness ==
    /\ pc = "rendered"
    /\ \E e \in Entities :
          ent[e].should_be_ignored /\ OverloadReason \in Range(ent[e].ignored_reason)
    /\ \E e \in Entities :
          ent[e].should_be_ignored /\ OverloadReason \notin Range(ent[e].ignored_reason)

(***************************************************************************)
(* C11: a callable is marked should_be_ignored at construction iff its     *)
(* return type or a parameter type is a void pointer or a parameter is a   *)
(* non-const reference; a field iff its type is a void pointer.            *)
(***************************************************************************)
UntypedPointer(t) == t.base = VoidT /\ t.ref = "*"
NonConstReference(t) == t.ref \in {"&", "&&"} /\ ~t.const

\* C11: a callable is ignored at construction exactly when it returns or takes
\* a void pointer or takes a non-const reference; a field exactly when its type
\* is a void pointer.
C11_IgnoredIffUnsupported ==
    \A e \in Declared :
        /\ IsInstance(ent[e].cls, "FunctionMeta") =>
              (ent[e].should_be_ignored <=>
                 \/ UntypedPointer(ent[e].cursor.result_type)
                 \/ \E i \in 1..Len(ent[e].cursor.arguments) :
                        \/ UntypedPointer(ent[e].cursor.arguments[i])
                        \/ NonConstReference(ent[e].cursor.arguments[i]))
        /\ ent[e].cls = "ClassPropertyMeta" =>
              (ent[e].should_be_ignored <=> UntypedPointer(ent[e].cursor.type))

(***************************************************************************)
(* C12: style resolution returns the value of the entity's own kind block  *)
(* when it defines the property, else the value of the first immediate     *)
(* base kind whose block defines it, else none; no other block is used.    *)
(***************************************************************************)
StyleProps == {"tagging_suffix", "tagging_type", "indent_space", "mangling_seperator",
               "mangling_prefix"}
Defines(sheet, kind, prop) == kind \in DOMAIN sheet /\ prop \in DOMAIN sheet[kind]

Resolved(sheet, kind, prop) ==
    IF Defines(sheet, kind, prop) THEN {sheet[kind][prop]}
    ELSE LET ds == {i \in 1..Len(Bases(kind)) : Defines(sheet, Bases(kind)[i], prop)}
         IN IF ds = {} THEN {}
            ELSE {sheet[Bases(kind)[CHOOSE i \in ds : \A j \in ds : i <= j]][prop]}

\* C12: get_style gives the own-kind value, else the first immediate base
\* kind's value, else none, for every entity kind and property.
C12_StyleResolution ==
    \A e \in Entities : \A prop \in StyleProps :
        get_style(Sheet, ent[e].cls, prop) = Resolved(Sheet, ent[e].cls, prop)

\* a method whose grandparent kind alone defines one property and whose own
\* and base kinds both define another, next to a constructor served by its base
C12_Witness ==
    \E e, f \in Entities :
        /\ ent[e].cls = "ClassMethodMeta"
        /\ Defines(Sheet, "MetaInfo", "tagging_suffix")
        /\ get_style(Sheet, ent[e].cls, "tagging_suffix") = {}
        /\ Defines(Sheet, "FunctionMeta", "tagging_type")
        /\ get_style(Sheet, ent[e].cls, "tagging_type") = {Sheet["ClassMethodMeta"]["tagging_type"]}
        /\ ent[f].cls = "ConstructorMeta"
        /\ get_style(Sheet, ent[f].cls, "tagging_type") = {Sheet["ClassMethodMeta"]["tagging_type"]}

(***************************************************************************)
(* C13: selecting a name that is not loaded raises and leaves the active   *)
(* configuration unchanged; selecting a loaded name makes exactly that     *)
(* configuration active.                                                   *)
(***************************************************************************)
StyleSelected ==
    (style_call' # style_call \/ current_style_sheet' # current_style_sheet) =>
        IF style_call'.style_name \in DOMAIN style_sheets
        THEN /\ style_call'.raised = ""
             /\ current_style_sheet' = style_sheets[style_call'.style_name]
        ELSE /\ style_call'.raised = "KeyError"
             /\ current_style_sheet' = current_style_sheet

\* C13: every selection step either raises KeyError and keeps the active
\* configuration (unknown name) or installs the configuration of that name.
C13_SelectStyleSheet == [][StyleSelected]_vars

\* an unknown name was refused after another configuration had been selected
C13_Witness ==
    /\ style_call.raised = "KeyError"
    /\ style_call.style_name \notin DOMAIN style_sheets
    /\ current_style_sheet = style_sheets["pre_js"]

(***************************************************************************)
(* C19: a naming/formatting getter uses the value the active style         *)
(* defines, also when it is an empty string or 0, and its hardcoded        *)
(* default only when the property is absent.                               *)
(***************************************************************************)
StyleValue(prop, e) == CHOOSE v \in get_style(Sheet, ent[e].cls, prop) : TRUE
StyleAbsent(prop, e) == get_style(Sheet, ent[e].cls, prop) = {}

\* C19: each getter returns the defined style value, and the default only
\* when the property is absent.
C19_DefinedValueUsed ==
    \A e \in Declared :
        /\ get_mangling_seperator(Sheet, ent, e) =
              (IF StyleAbsent("mangling_seperator", e) THEN <<"_", "_">>
               ELSE StyleValue("mangling_seperator", e))
        /\ get_indent_space(Sheet, ent, e) =
              (IF StyleAbsent("indent_space", e) THEN 4 ELSE StyleValue("indent_space", e))
        /\ get_tagging_suffix(Sheet, ent, e) =
              (IF StyleAbsent("tagging_suffix", e)
               THEN DefaultTaggingSuffix(ent[e].cls) ELSE StyleValue("tagging_suffix", e))

(***************************************************************************)
(* C14: for the one header declaring namespace app with class Point and    *)
(* its public members Point(), x, add(double), add(int, int), the built    *)
(* and flattened tree has one namespace app, one class mangled             *)
(* N_app__C_Point, one constructor of arity 0, two overloaded methods add, *)
(* one field x, and nothing ignored.                                       *)
(***************************************************************************)
OfKind(cls) == {e \in Entities : ent[e].cls = cls}

\* the header was scanned as the only one, and the tree is built and flattened
PointHeaderDone ==
    /\ pc = "flattened"
    /\ Len(includes) = 1
    /\ \E ns, c \in Entities :
          /\ ent[ns].cursor = Decl("NAMESPACE", NameApp, "INVALID") /\ ent[ns].parent = Root
          /\ ent[c].cursor = Decl("CLASS_DECL", NamePoint, "INVALID") /\ ent[c].parent = ns
          /\ \A m \in PointMemberCursors : \E e \in Entities : ent[e].cursor = m

\* C14: the tree built and flattened from the Point header has exactly the
\* expected entities, names and flags.
C14_PointExample ==
    PointHeaderDone =>
        /\ \E ns \in Entities :
              /\ OfKind("NamespaceMeta") = {ns}
              /\ ent[ns].ast_name = NameApp
              /\ ent[Root].namespaces = <<ns>>
              /\ \E c \in Entities :
                    /\ OfKind("ClassMeta") = {c}
                    /\ ent[ns].definations = <<c>>
                    /\ get_mangled_name(Sheet, ent, c) =
                          <<"N", "_", "a", "p", "p", "_", "_", "C", "_", "P", "o", "i", "n", "t">>
                    /\ \E k \in Entities :
                          /\ OfKind("ConstructorMeta") = {k}
                          /\ FunctionIterator(ent[c].constructors) = <<k>>
                          /\ ent[k].args_count = 0
                          /\ ~ent[k].should_be_ignored
                    /\ Cardinality(OfKind("ClassMethodMeta")) = 2
                    /\ Range(FunctionIterator(ent[c].methods)) = OfKind("ClassMethodMeta")
                    /\ \A m \in OfKind("ClassMethodMeta") :
                          /\ ent[m].ast_name = NameAdd
                          /\ ent[m].is_overloaded
                          /\ ~ent[m].should_be_ignored
                    /\ \E x \in Entities :
                          /\ OfKind("ClassPropertyMeta") = {x}
                          /\ ent[c].fields = <<x>>
                          /\ ent[x].ast_name = NameX
        /\ \A e \in Entities : ~ent[e].should_be_ignored
        /\ Len(ent) = 7

C14_Witness == PointHeaderDone

(***************************************************************************)
(* C15: for every namespace of a flattened tree, top-level or nested,      *)
(* build_hierarchical_structure_base places every non-constant member,     *)
(* with its own mangled name and kind, under the chain of its enclosing    *)
(* classes below that namespace, and each enclosing node keeps its own     *)
(* mangled name.                                                           *)
(***************************************************************************)
\* the entities strictly between namespace ns and its member e, outermost first
RECURSIVE EnclosingBelow(_, _, _)
EnclosingBelow(E, ns, e) ==
    IF E[e].parent = ns THEN <<>>
    ELSE Append(EnclosingBelow(E, ns, E[e].parent), E[e].parent)

\* declarations of one scope that are not callables have distinct names
DistinctSiblingNames ==
    \A e, f \in Declared :
        (e # f /\ ent[e].parent = ent[f].parent /\ ent[e].ast_name = ent[f].ast_name) =>
            (IsInstance(ent[e].cls, "FunctionMeta") /\ IsInstance(ent[f].cls, "FunctionMeta"))

MemberPlaced(ns, d) ==
    LET st == build_hierarchical_structure_base(Sheet, ent, ns)
        chain == EnclosingBelow(ent, ns, d)
        path == [k \in 1..Len(chain) |-> ent[chain[k]].ast_name] \o <<ent[d].ast_name>>
    IN /\ path \in DOMAIN st
       /\ st[path].mangled_name = {get_mangled_name(Sheet, ent, d)}
       /\ st[path].type = ent[d].cls
       /\ \A k \in 1..Len(chain) :
             /\ SubSeq(path, 1, k) \in DOMAIN st
             /\ st[SubSeq(path, 1, k)].mangled_name = {get_mangled_name(Sheet, ent, chain[k])}

\* C15: every non-constant member of every namespace of a flattened tree is
\* placed under its enclosing classes with its own mangled name and kind.
C15_HierarchyRebuilt ==
    (pc = "flattened" /\ DistinctSiblingNames) =>
        \A ns \in OfKind("NamespaceMeta") :
            \A i \in 1..Len(ent[ns].definations) :
                ent[ent[ns].definations[i]].cls # "ConstantValueMeta" =>
                    MemberPlaced(ns, ent[ns].definations[i])

(***************************************************************************)
(* C16: collect_all_constants(namespaces) returns exactly the constants    *)
(* that are direct members of a namespace of the forest or of a namespace  *)
(* nested below it, each once, a namespace's own constants in member order *)
(* before those of its nested namespaces, which follow in order.           *)
(***************************************************************************)
\* the namespaces from a top-level one down to ns
RECURSIVE NamespacePath(_, _)
NamespacePath(E, ns) ==
    IF E[ns].parent = Root THEN <<ns>> ELSE Append(NamespacePath(E, E[ns].parent), ns)

PositionIn(list, x) == CHOOSE i \in 1..Len(list) : list[i] = x

\* constant x precedes constant y in document order
DocumentOrder(x, y) ==
    LET px == NamespacePath(ent, ent[x].parent)
        py == NamespacePath(ent, ent[y].parent)
        common == {k \in 1..Len(px) : k <= Len(py) /\ SubSeq(px, 1, k) = SubSeq(py, 1, k)}
        n == Cardinality(common)
    IN IF px = py
       THEN PositionIn(ent[ent[x].parent].definations, x)
               < PositionIn(ent[ent[y].parent].definations, y)
       ELSE IF n = Len(px) THEN TRUE
       ELSE IF n = Len(py) THEN FALSE
       ELSE LET siblings == IF n = 0 THEN ent[Root].namespaces ELSE ent[px[n]].namespaces
            IN PositionIn(siblings, px[n + 1]) < PositionIn(siblings, py[n + 1])

NamespaceConstants ==
    {e \in OfKind("ConstantValueMeta") : ent[ent[e].parent].cls = "NamespaceMeta"}

\* C16: the collected list is the set of namespace constants of the forest,
\* each once, in document order.
C16_ConstantsCollected ==
    pc # "process" =>
        LET constants == collect_all_constants(ent, ent[Root].namespaces)
        IN /\ Range(constants) = NamespaceConstants
           /\ Len(constants) = Cardinality(NamespaceConstants)
           /\ \A i, j \in 1..Len(constants) :
                 i < j => DocumentOrder(constants[i], constants[j])

\* a constant of a nested namespace was collected
C16_Witness ==
    /\ pc # "process"
    /\ \E x \in Range(collect_all_constants(ent, ent[Root].namespaces)) :
          Len(NamespacePath(ent, ent[x].parent)) = 2

(***************************************************************************)
(* C17: in a finished tree two distinct namespace, class, struct, enum or  *)
(* container-instance entities never have the same mangled name.           *)
(***************************************************************************)
RegisteredKinds ==
    {"NamespaceMeta", "ClassMeta", "StructMeta", "EnumMeta", "STLContainerMeta"}

\* C17: registered entities of a finished tree have pairwise distinct mangled names.
C17_UniqueMangledNames ==
    pc # "process" =>
        \A e, f \in Entities :
            (e # f /\ ent[e].cls \in RegisteredKinds /\ ent[f].cls \in RegisteredKinds) =>
                get_mangled_name(Sheet, ent, e) # get_mangled_name(Sheet, ent, f)

(***************************************************************************)
(* C18: in the finished tree a callable's overload flag is true iff at     *)
(* least two callables of that name exist in its owning scope, for methods *)
(* of a class and for free functions of a namespace alike.                 *)
(***************************************************************************)
Callables == {e \in Entities : IsInstance(ent[e].cls, "FunctionMeta")}

\* C18: the overload flag of a callable equals the existence of a same-named
\* sibling callable, in classes and in namespaces.
C18_OverloadFlagEverywhere ==
    pc # "process" =>
        \A e \in Callables :
            ent[e].is_overloaded <=>
                \E f \in Callables :
                    f # e /\ ent[f].parent = ent[e].parent /\ ent[f].ast_name = ent[e].ast_name

(***************************************************************************)
(* C20: the mangled name of every container-instance entity parses to      *)
(* exactly one segment, classified 'stl'.                                  *)
(***************************************************************************)
\* C20: a container's mangled name parses to one 'stl' segment.
C20_ContainerNameParses ==
    \A c \in OfKind("STLContainerMeta") :
        LET hierarchy == parse_mangled_name(get_mangled_name(Sheet, ent, c))
        IN Len(hierarchy) = 1 /\ hierarchy[1][1] = "stl"

(***************************************************************************)
(* C21: the phases of a run are ordered build, flatten, collect             *)
(* containers, render: the container scan starts only once a flatten pass   *)
(* has completed.                                                           *)
(***************************************************************************)
\* the step in which the tree is pumped through the container filter
CollectionStep == pc = "process" /\ pc' = "constructed"

CollectionAfterFlatten == CollectionStep => flattens >= 1 /\ output = <<>>

\* C21: every container-collection step is taken after a completed flatten
\* pass and before rendering.
C21_PhaseOrder == [][CollectionAfterFlatten]_vars

(***************************************************************************)
(* C22: the output file is written only after parsing, tree building,      *)
(* flattening and rendering have all completed without error; a run that   *)
(* raises leaves the file as it found it.                                  *)
(***************************************************************************)
AllPhasesDone ==
    /\ pc = "rendered"
    /\ raised = <<>>
    /\ ~in_header
    /\ Len(stack) = 1
    /\ flattens >= 1
    /\ output = ProjectMetaTagging(current_style_sheet, ent, includes, stl_containers, 0)

WriteOnlyAfterSuccess ==
    /\ output_file' # output_file => AllPhasesDone /\ output_file' = {output}
    /\ raised' # <<>> => output_file' = output_file

\* C22: every step that creates or modifies the output file starts where all
\* phases have completed without error, and no step that raises touches it.
C22_WriteOnlyAfterSuccess == [][WriteOnlyAfterSuccess]_vars

\* a run of a built and flattened project whose rendering raised, in a
\* directory holding the file of an earlier run
C22_Witness ==
    /\ pc = "aborted"
    /\ raised = <<"TemplateError">>
    /\ flattens >= 1
    /\ OfKind("ClassMeta") # {}
    /\ output_file = {StaleContent}

(***************************************************************************)
(* C23: in the generator that flattens into the project's definations, a   *)
(* name conflict is fatal and named by both full names, and without one    *)
(* every flattened class and nested enum is among the root's definations.  *)
(***************************************************************************)
\* sub occurs in s as a run of consecutive tokens
Contains(s, sub) ==
    \E i \in 0..(Len(s) - Len(sub)) : SubSeq(s, i + 1, i + Len(sub)) = sub

\* the classes and structs the flatten pass is called on, and their enums
LegacyFlattened ==
    {e \in Declared : /\ \/ IsClassLike(ent, e)
                         \/ ent[e].cls = "EnumMeta" /\ IsClassLike(ent, ent[e].parent)
                      /\ NearestNamespace(ent, e) # Root}

\* C23: a flatten that met a name already among the root's definations has
\* raised an error naming both entities by full name; a flatten that met none
\* has put every flattened class and nested enum among the root's definations.
C23_LegacyConflict ==
    /\ pc = "aborted" =>
          \E x \in Declared : \E y \in Declared :
              /\ x # y
              /\ ent[x].ast_name = ent[y].ast_name
              /\ Contains(raised, LegacyFullName(ent, x))
              /\ Contains(raised, LegacyFullName(ent, y))
              /\ LegacyFullName(ent, x) # LegacyFullName(ent, y)
    /\ pc = "flattened" =>
          \A e \in LegacyFlattened : e \in Range(ent[Root].definations)

(***************************************************************************)
(* C24: the scan of a namespace or project scope visits only definitions   *)
(* of the scanned file and dispatches them by kind.                        *)
(***************************************************************************)
\* a step that handles one child of the scope on top of the stack
ScanStep == InNamespaceScope /\ in_header' /\ Len(stack') >= Len(stack)

Visited(c) == c.in_scanned_file /\ c.is_definition

MemberKinds == {"VAR_DECL", "FUNCTION_DECL", "CLASS_DECL", "STRUCT_DECL", "ENUM_DECL"}

NothingBuilt == ent' = ent /\ stack' = stack

\* one entity of class cls is created for the child, below the scope
CreatedOne(cls) ==
    /\ Len(ent') = Len(ent) + 1
    /\ ent'[Len(ent')].cls = cls
    /\ ent'[Len(ent')].cursor = child'
    /\ ent'[Len(ent')].parent = Top
    /\ \A e \in Entities \ {Top} : ent'[e] = ent[e]

\* the created entity is the new last member of the scope
AppendedToMembers ==
    /\ ent'[Top] = [ent[Top] EXCEPT !.definations = Append(@, Len(ent'))]
    /\ stack' = stack

\* the created composite is being filled; it joins the members on its return
ConstructorEntered ==
    /\ ent'[Top] = ent[Top]
    /\ stack' = Append(stack, [id |-> Len(ent'), mode |-> "new"])

\* the effect of a step on a child of one of the kinds that yield members
MemberDispatch ==
    LET c == child'
    IN /\ pc' = "process" /\ raised' = <<>>
       /\ ~Visited(c) => NothingBuilt
       /\ Visited(c) /\ c.kind = "VAR_DECL" =>
             IF c.type.const
             THEN CreatedOne("ConstantValueMeta") /\ AppendedToMembers
                  /\ ~ent'[Len(ent')].should_be_ignored
             ELSE NothingBuilt
       /\ Visited(c) /\ c.kind = "FUNCTION_DECL" =>
             CreatedOne("FunctionMeta") /\ AppendedToMembers
       /\ Visited(c) /\ c.kind = "CLASS_DECL" =>
             CreatedOne("ClassMeta") /\ ConstructorEntered
       /\ Visited(c) /\ c.kind = "STRUCT_DECL" =>
             CreatedOne("StructMeta") /\ ConstructorEntered
       /\ Visited(c) /\ c.kind = "ENUM_DECL" =>
             CreatedOne("EnumMeta") /\ ConstructorEntered

\* the members of every scope are the finished member entities declared in
\* it, each once, in the order of their declaration (required of the state
\* every step leads to)
MembersInDeclarationOrder ==
    \A s \in Entities :
        IsNamespaceLike(ent, s) =>
            /\ \A i \in 1..Len(ent[s].definations) : \A j \in 1..Len(ent[s].definations) :
                   i < j => ent[s].definations[i] < ent[s].definations[j]
            /\ \A e \in Declared :
                   (ent[e].parent = s /\ ent[e].cursor.kind \in MemberKinds) =>
                       (e \in Range(ent[s].definations) <=> e \notin OnStack)

OtherKindBuildsNothing ==
    /\ MembersInDeclarationOrder'
    /\ ScanStep =>
          /\ MemberDispatch
          /\ Visited(child') /\ child'.kind \notin MemberKinds => NothingBuilt

OtherKindDispatch ==
    /\ MembersInDeclarationOrder'
    /\ ScanStep =>
        /\ MemberDispatch
        /\ Visited(child') /\ child'.kind \notin MemberKinds =>
              /\ ent'[Top].definations = ent[Top].definations
              /\ CASE child'.kind = "NAMESPACE" ->
                        IF NamespaceNamed(ent, Top, child'.spelling) = 0
                        THEN CreatedOne("NamespaceMeta") /\ ConstructorEntered
                        ELSE /\ ent' = ent
                             /\ stack' = Append(stack,
                                    [id |-> NamespaceNamed(ent, Top, child'.spelling),
                                     mode |-> "merge"])
                   [] child'.kind = "TYPEDEF_DECL" ->
                        /\ CreatedOne("TypeDefMeta")
                        /\ ent'[Top] = [ent[Top] EXCEPT !.type_defs = Append(@, Len(ent'))]
                        /\ stack' = stack
                   [] OTHER -> NothingBuilt

\* C24 as stated: children of other files and forward declarations build
\* nothing; a const variable, function, class, struct or enum yields one
\* member of the scope, in declaration order; a non-const variable and every
\* other kind build no entity; no child aborts the scan.
C24_ScanDispatch == [][OtherKindBuildsNothing]_vars

\* C24, amended: as above, except that of the other kinds a namespace
\* declaration creates or re-enters a child namespace and a type alias
\* declaration creates a type alias entity in the scope's type_defs; neither
\* touches the member list, and every remaining kind builds no entity.
C24_ScanDispatchAmended == [][OtherKindDispatch]_vars

\* a header whose scope holds a constant and a function in order, after a
\* non-const variable was dropped
C24_Witness ==
    /\ Scanning
    /\ child.kind = "VAR_DECL" /\ ~child.type.const
    /\ \E i \in 1..Len(ent[Top].definations) : \E j \in 1..Len(ent[Top].definations) :
           /\ i < j
           /\ ent[ent[Top].definations[i]].cls = "ConstantValueMeta"
           /\ ent[ent[Top].definations[j]].cls = "FunctionMeta"
    /\ \A e \in Declared : ent[e].cursor # child

(***************************************************************************)
(* C25: the flags is_overloaded and should_be_ignored of an entity only    *)
(* ever change from false to true.                                         *)
(***************************************************************************)
FlagsOnlyRise ==
    \A e \in Entities :
        /\ e <= Len(ent')
        /\ ent[e].is_overloaded => ent'[e].is_overloaded
        /\ ent[e].should_be_ignored => ent'[e].should_be_ignored

\* C25: no step of a run (additions to groups, flatten, container
\* collection, rendering) clears a set is_overloaded or should_be_ignored.
C25_FlagsOnlyRise == [][FlagsOnlyRise]_vars

\* a rendered project with a group of three, whose first member was marked
\* overloaded by the second addition and lived through the third, and with
\* an ignored callable
C25_Witness ==
    /\ pc = "rendered"
    /\ \E g \in Groups : Len(g) = 3 /\ ent[g[1]].is_overloaded
    /\ \E e \in Callables : ent[e].should_be_ignored

(***************************************************************************)
(* C26: every physical line of an entity's fragment rendered at indent     *)
(* level n, the closing line of a composite included, starts with n * w    *)
(* spaces, w being the indent width the style configures for the entity's  *)
(* kind, or 4 when it configures none.                                     *)
(***************************************************************************)
ConfiguredWidth(e) ==
    IF StyleAbsent("indent_space", e) THEN 4 ELSE StyleValue("indent_space", e)

IsComposite(e) == IsClassLike(ent, e) \/ ent[e].cls \in {"EnumMeta", "NamespaceMeta"}

\* the lines of the fragment that are the entity's own: for a composite its
\* opening lines and its closing line, for a leaf all of them
OwnLines(frag, e) ==
    IF ~IsComposite(e) THEN 1..Len(frag)
    ELSE IF ent[e].cls = "NamespaceMeta" THEN {1, Len(frag)}
    ELSE 1..Len(Split(TaggingContent(Sheet, ent, e), <<"\n">>)) \cup {Len(frag)}

\* C26: each own line of each fragment in the output has n * w spaces.
C26_LineIndent ==
    pc = "rendered" =>
        \A e \in Declared : \A n \in 0..Len(ent) :
            LET frag == Tagging(Sheet, ent, e, n)
            IN Contains(output, frag) =>
                   \A i \in OwnLines(frag, e) : frag[i].spaces = n * ConfiguredWidth(e)

(***************************************************************************)
(* C27: flatten neither loses nor duplicates: every class, struct and enum *)
(* reachable from a namespace before its first flatten is afterwards in    *)
(* exactly one namespace member list, exactly once, and a second flatten   *)
(* keeps the set of members of every namespace.                            *)
(***************************************************************************)
IsTypeEntity(E, e) == IsClassLike(E, e) \/ E[e].cls = "EnumMeta"

\* everything held, directly or not, by the collections of x
RECURSIVE ReachableFrom(_, _)
ReachableFrom(E, x) ==
    LET held == Range(E[x].definations) \cup Range(E[x].namespaces)
                \cup Range(E[x].classes) \cup Range(E[x].structs) \cup Range(E[x].enums)
    IN held \cup UNION {ReachableFrom(E, k) : k \in held}

\* the number of places e takes in the member lists of all namespaces
Occurrences(E, e) ==
    Cardinality({p \in {s \in 1..Len(E) : IsNamespaceLike(E, s)} \X (1..Len(E)) :
                    /\ p[2] <= Len(E[p[1]].definations)
                    /\ E[p[1]].definations[p[2]] = e})

FlattenKeepsEntities ==
    flattens' > flattens =>
        /\ flattens = 0 =>
              \A ns \in OfKind("NamespaceMeta") :
                  \A e \in ReachableFrom(ent, ns) :
                      IsTypeEntity(ent, e) => Occurrences(ent', e) = 1
        /\ flattens >= 1 =>
              \A s \in Entities :
                  IsNamespaceLike(ent, s) =>
                      /\ Range(ent'[s].definations) = Range(ent[s].definations)
                      /\ \A e \in Range(ent'[s].definations) : Occurrences(ent', e) = 1

\* C27: the first flatten puts every class, struct and enum that a namespace
\* held, at any depth, once into one member list; a later flatten changes no
\* namespace's set of members and duplicates nothing.
C27_FlattenKeepsEntities == [][FlattenKeepsEntities]_vars

\* flattened twice: an enum nested in a class of a namespace is a member of
\* the namespace
C27_Witness ==
    /\ flattens = 2
    /\ \E e \in OfKind("EnumMeta") :
           /\ IsClassLike(ent, ent[e].parent)
           /\ ent[ent[e].parent].parent # Root
           /\ e \in Range(ent[ent[ent[e].parent].parent].definations)

(***************************************************************************)
(* C28: flatten changes only the member lists of namespaces and the nested *)
(* classes, structs and enums collections of classes.                      *)
(***************************************************************************)
FlattenFrame ==
    flattens' > flattens =>
        /\ Len(ent') = Len(ent)
        /\ \A e \in Entities :
              /\ ent'[e] = [ent[e] EXCEPT !.definations = ent'[e].definations,
                                          !.classes = ent'[e].classes,
                                          !.structs = ent'[e].structs,
                                          !.enums = ent'[e].enums]
              /\ ~IsNamespaceLike(ent, e) => ent'[e].definations = ent[e].definations
              /\ ~IsClassLike(ent, e) =>
                    /\ ent'[e].classes = ent[e].classes
                    /\ ent'[e].structs = ent[e].structs
                    /\ ent'[e].enums = ent[e].enums

\* C28: a flatten step keeps every field of every entity (parent, AST name,
\* ignore flag and reason, overload flag, constructors, methods, fields,
\* static values, type aliases, child namespaces) other than the member
\* lists of namespaces and the nested collections of classes.
C28_FlattenFrame == [][FlattenFrame]_vars

\* a flattened class of a namespace that owns an ignored field
C28_Witness ==
    /\ flattens >= 1
    /\ \E c \in Entities :
          /\ IsClassLike(ent, c)
          /\ ent[c].parent # Root
          /\ c \in Range(ent[ent[c].parent].definations)
          /\ \E i \in 1..Len(ent[c].fields) : ent[ent[c].fields[i]].should_be_ignored

(***************************************************************************)
(* C29: in a constructor group, for every parameter count at most one      *)
(* member with that count is not ignored.                                  *)
(***************************************************************************)
ConstructorGroups ==
    UNION {{ent[c].constructors[i].homonymic_functions : i \in 1..Len(ent[c].constructors)} :
           c \in {x \in Entities : IsClassLike(ent, x)}}

\* C29: no two members of a constructor group that are both not ignored have
\* the same parameter count.
C29_OnePerArity ==
    \A g \in ConstructorGroups :
        \A i \in 1..Len(g) : \A j \in 1..Len(g) :
            (i # j /\ ent[g[i]].args_count = ent[g[j]].args_count) =>
                ent[g[i]].should_be_ignored \/ ent[g[j]].should_be_ignored

\* three constructors, two of one parameter count and one of another; the
\* first of the two and the third are kept
C29_Witness ==
    \E g \in ConstructorGroups :
        /\ Len(g) = 3
        /\ \E i \in 1..3 : \E j \in 1..3 : \E k \in 1..3 :
              /\ i < j
              /\ ent[g[i]].args_count = ent[g[j]].args_count
              /\ ent[g[k]].args_count # ent[g[i]].args_count
              /\ ~ent[g[i]].should_be_ignored
              /\ ent[g[j]].should_be_ignored
              /\ ~ent[g[k]].should_be_ignored

(***************************************************************************)
(* C30: in an arity-checked group a function using no unsupported          *)
(* construct is ignored only if an earlier member that is itself not       *)
(* ignored has the same parameter count.                                   *)
(***************************************************************************)
Bindable(e) == ~ent[e].has_any_void_pointer /\ ~ent[e].has_any_nonconst_reference

====
